---- MODULE Spec2Model ----
(***************************************************************************)
(* SnarfX: a reactive graph of Observable cells, lazy Computed values and  *)
(* eager reactions with batching (action / transaction).                   *)
(*                                                                         *)
(* The model is big-step: one action per public operation (set, get,       *)
(* dispose, begin_batch, end_batch), each computing everything the call    *)
(* does before it returns, nested derivation runs included.  The recursive *)
(* operators below thread the tables of _anchor and _tracking through the  *)
(* call tree as one record S; `cur` is the contextvar current_derivation   *)
(* as the caller of an operator sees it, S.current the contextvar itself,  *)
(* which Evaluate sets and restores around every function.                 *)
(*                                                                         *)
(* The graph is the one the tests build, merged into one program:          *)
(*   cells      a, b, flag, out                                            *)
(*   Computed   dbl  = a * 2                                               *)
(*              quad = dbl * 2                                             *)
(*              sel  = a if flag else b                                    *)
(*   autorun    rsum : reads dbl, sel                                      *)
(*              rsel : reads flag, then a if flag else out                 *)
(*   reaction   rpar : data a % 2, effect out.set(parity)                  *)
(*                                                                         *)
(* A second program is the one the Store tests build: a Store with the     *)
(* keys count and stop (extra is added by reconcile), whose setup_fn       *)
(* registers an autorun w<i> (reads count and extra) and a reaction g<i>   *)
(* (data count % 2, effect appends to a list), next to two autoruns:       *)
(*   reaper : disposes the store when stop is set                          *)
(*   check  : raises ValueError when count reaches MaxVal                  *)
(*                                                                         *)
(* A third program is a feed written by background threads: the cells x    *)
(* and y, an ObservableList lst and an ObservableDict dct, with            *)
(*   Computed   size = len(lst)                                            *)
(*   autorun    rx : reads x, y                                            *)
(*              rl : reads len(lst) and size                               *)
(*              rd : reads len(dct)                                        *)
(* The main thread calls set_scheduler; the threads t1 and t2 write.  Each *)
(* call is one atomic step, and the marshal is a queue that the owner      *)
(* thread empties in first-in-first-out order.                             *)
(*                                                                         *)
(* Two small programs exercise re-entrancy and failures:                   *)
(*   toggler, reader, gate : reader writes t inside its evaluation and     *)
(*              toggler answers by writing sw, which reader reads; gate is *)
(*              a data reaction on t whose effect reads e                  *)
(*   risky, strict, user   : a Computed and an autorun whose function      *)
(*              raises when p is 1, and an autorun that reads the Computed *)
(***************************************************************************)
EXTENDS Integers, Sequences, FiniteSets

\* ------------------------------------------------------------------ bounds
MaxVal == 2
MaxDepth == 2
MaxBatchOps == 2
OrderShifts == 3
MaxSetups == 2
MaxLen == 2
MaxQueue == 2
MaxStreams == 3
MaxSubs == 2
MaxPause == 2
MaxListeners == 3

\* ------------------------------------------------------------------ nodes
Cells == {"a", "b", "flag", "out"}
Computeds == {"dbl", "quad", "sel"}
Autoruns == {"rsum", "rsel"}
DataReactions == {"rpar"}
Reactions == Autoruns \cup DataReactions
Derivations == Computeds \cup Reactions
Nodes == Cells \cup Computeds

None == "none"
MainThread == "main"
UNSET == -1
\* In a record of reads: the node was not read (a marker below every value).
NoRead == UNSET - 1

\* What the program writes: a counter in a, truth values in the other cells.
Vals == 0..MaxVal
CellVals(c) == IF c = "a" THEN Vals ELSE {0, 1}

\* The Store program: the keys of the store and the reactions of each setup_fn.
StoreKeys == {"count", "stop", "extra"}
Schema1 == <<"count", "stop">>
Schema2 == <<"count", "stop", "extra">>
Watchers == <<"w1", "w2", "w3">>
Parities == <<"g1", "g2", "g3">>
StoreAutoruns == {Watchers[i] : i \in 1..Len(Watchers)} \cup {"reaper", "check"}
StoreDataReactions == {Parities[i] : i \in 1..Len(Parities)}
StoreReactions == StoreAutoruns \cup StoreDataReactions

\* The feed program: its collections, derivations and threads.
FeedCells == {"x", "y"}
Lists == {"lst"}
Dicts == {"dct"}
ListItems == {1, 2}
DictKeys == {"k1", "k2"}
FeedComputeds == {"size"}
FeedAutoruns == {"rx", "rl", "rd"}
FeedDerivations == FeedComputeds \cup FeedAutoruns
FeedNodes == FeedCells \cup Lists \cup Dicts \cup FeedComputeds
Workers == {"t1", "t2"}
Threads == {MainThread} \cup Workers
\* Who writes which cell: main and t2 write x, t1 writes y; they write flags.
Writers == {<<MainThread, "x">>, <<"t1", "y">>, <<"t2", "x">>}
WorkerWrites == {w \in Writers : w[1] \in Workers}
FeedVals == {0, 1}
FeedOrder == <<"size", "rx", "rl", "rd">>

\* The Textual program: two apps, and a cell o read by a guarded autorun (ta)
\* and by the data function of a guarded reaction (tr), both made for appA by
\* the main thread.
Apps == {"appA", "appB"}
BridgeAutoruns == {"ta"}
BridgeDataReactions == {"tr"}
BridgeDerivations == BridgeAutoruns \cup BridgeDataReactions
BridgeOrder == <<"ta", "tr">>
AppOf(d) == "appA"

\* The program of one autorun (once) that disposes itself: its cells.
OnceCells == {"halt", "n"}
OnceOrder == <<"once">>

\* The re-entrant program: reader writes t inside its evaluation, toggler
\* answers by writing sw, which reader reads; gate is a data reaction on t whose
\* effect reads e.
NestCells == {"sw", "c1", "c2", "t", "z", "e"}
NestDerivations == {"toggler", "reader", "gate"}
NestOrder == <<"toggler", "reader", "gate">>

\* The failing program: risky is a Computed and strict an autorun whose
\* functions raise when p is 1; user is an autorun that reads risky.
FailCells == {"p", "q", "w"}
FailDerivations == {"risky", "strict", "user"}
FailOrder == <<"risky", "strict", "user">>

\* Creation order of the derivations (their _anchor ids are increasing).
CreationOrder == <<"dbl", "quad", "sel", "rsum", "rsel", "rpar">>
\* The Store program creates reaper, w1, g1, check, w2, g2, ...; a set of its
\* handles iterates as a rotation of that cycle, and this is the one of shift 0.
StoreOrder == <<"w2", "g2", "w3", "g3", "reaper", "w1", "g1", "check">>
NDeriv == Len(CreationOrder)
OrderOf(d) ==
  IF d \in StoreReactions THEN StoreOrder
  ELSE IF d \in FeedDerivations THEN FeedOrder
  ELSE IF d \in BridgeDerivations THEN BridgeOrder
  ELSE IF d \in NestDerivations THEN NestOrder
  ELSE IF d \in FailDerivations THEN FailOrder
  ELSE IF d = "once" THEN OnceOrder ELSE CreationOrder
Pos(d) == CHOOSE i \in 1..Len(OrderOf(d)) : OrderOf(d)[i] = d

VARIABLES
  values,        \* _anchor.values: cell -> value
  observers,     \* _anchor.observers: node -> set of derivations
  dependencies,  \* _anchor.dependencies: derivation -> set of nodes
  dirty_flags,   \* _anchor.dirty_flags: Computed -> BOOLEAN
  cached_values, \* _anchor.cached_values: Computed -> value or UNSET
  disposed,      \* _anchor.disposed: reaction -> BOOLEAN
  last_value,    \* _DataReaction._last_value
  initialized,   \* _DataReaction._initialized
  batch_depth,   \* _tracking._batch_depth
  pending,       \* _tracking._pending
  log,           \* history: the function invocations of the current operation / open batch
  lastObs,       \* history: what the latest evaluation of each derivation read
  pre,           \* history: the cell values when the current operation / open batch began
  mark,          \* history: the length of log when the latest operation began
  nops,          \* history: operations issued inside the open batch
  op,            \* history: the public operation that produced this state
  scheduler,     \* observable._scheduler_thread, None while _scheduler is None
  marshal,       \* the closures handed to observable._scheduler, oldest first
  store,         \* Store._observables (its keys) and Store._reaction_disposers
  raised,        \* the failure the latest operation raised to its caller, or None
  returned,      \* the value the latest @action call returned to its caller, or UNSET
  lastSub,       \* history: the value of the latest set() of each worker thread on its cell
  current,       \* _tracking.current_derivation of the main thread, None by default
  subscribers,   \* EventStream._subscribers: stream -> list of callbacks
  children,      \* EventStream._children: stream -> list of streams
  stream_disposed, \* EventStream._disposed: stream -> BOOLEAN
  parent_disposer, \* EventStream._parent_disposer: stream -> its parent, or 0 for None
  timers,        \* debounced stream -> values of its timers that are started and not cancelled
  made,          \* history: the streams constructed so far, with parent and operator
  handles,       \* history: the disposers that subscribe() returned, and whether they were called
  delivered,     \* history: the callbacks that the latest operation invoked
  burst,         \* history: debounced stream -> <<1 or 2 (a burst), latest source event>> since its latest emission
  is_running,    \* app.is_running of each app
  paused_apps,   \* textual._paused_apps (the apps stand for their ids)
  pauses         \* history: the apps of the active "with pause(app)" blocks, outermost first

\* The tables of the dependency graph and of its programs (all but op).
graph == <<values, observers, dependencies, dirty_flags, cached_values, disposed,
           last_value, initialized, batch_depth, pending, log, lastObs, pre, mark, nops,
           scheduler, marshal, store, raised, returned, lastSub, current>>

\* The tables of the event streams.
streams == <<subscribers, children, stream_disposed, parent_disposer, timers, made,
             handles, delivered, burst>>

vars == <<values, observers, dependencies, dirty_flags, cached_values, disposed,
          last_value, initialized, batch_depth, pending, log, lastObs, pre, mark, nops, op,
          scheduler, marshal, store, raised, returned, lastSub, current,
          subscribers, children, stream_disposed, parent_disposer, timers, made,
          handles, delivered, burst, is_running, paused_apps, pauses>>

\* The tables of the Textual bridge.
bridge == <<is_running, paused_apps, pauses>>

\* Every app is running and no pause block is active.
NoPause ==
  /\ is_running = [app \in Apps |-> TRUE]
  /\ paused_apps = {}
  /\ pauses = <<>>

\* textual.is_safe
is_safe(app) == is_running[app] /\ app \notin paused_apps

\* ------------------------------------------------------------ event streams
\* A program that constructs one EventStream and derives up to MaxStreams - 1
\* more from it with map, filter and debounce; the streams are numbered in the
\* order of their construction.
StreamIds == 1..MaxStreams
Callbacks == {"cb1", "cb2"}
EventVals == {0, 1}

\* EventStream.__init__ of the first stream
NoStreams ==
  /\ subscribers = [s \in StreamIds |-> <<>>]
  /\ children = [s \in StreamIds |-> <<>>]
  /\ stream_disposed = [s \in StreamIds |-> FALSE]
  /\ parent_disposer = [s \in StreamIds |-> 0]
  /\ timers = [s \in StreamIds |-> <<>>]
  /\ made = <<[parent |-> 0, kind |-> "root"]>>
  /\ handles = <<>>
  /\ delivered = <<>>
  /\ burst = [s \in StreamIds |-> <<>>]

\* --------------------------------------------------------- iteration order
\* list(a_set) of derivation handles iterates in hash order; the handles hash by
\* address, so a set of them iterates as a rotation of their creation order.
Key(d, ord) == (Pos(d) + ord) % Len(OrderOf(d))

RECURSIVE Order(_, _)
Order(set, ord) ==
  IF set = {} THEN <<>>
  ELSE LET first == CHOOSE d \in set : \A e \in set : Key(d, ord) <= Key(e, ord)
       IN <<first>> \o Order(set \ {first}, ord)

NoObs == [n \in Nodes |-> NoRead]

\* --------------------------------------------------------- the call state
\* The tables of _anchor and _tracking as one record, threaded through a call.
\* ord is the rotation that the set iterations of this call follow.
\* thread is the calling thread and exc the failure being propagated, if any.
StateOf(ord, lg) ==
  [values |-> values, observers |-> observers, dependencies |-> dependencies,
   dirty |-> dirty_flags, cached |-> cached_values, disposed |-> disposed,
   last_value |-> last_value, initialized |-> initialized,
   depth |-> batch_depth, pending |-> pending, log |-> lg, ord |-> ord,
   scheduler |-> scheduler, marshal |-> marshal, store |-> store,
   thread |-> MainThread, exc |-> None, ret |-> UNSET, sub |-> lastSub,
   current |-> current]

RunEntry(S, d, res) ==
  [d |-> d, kind |-> "run", obs |-> res.obs, val |-> res.val, depth |-> S.depth,
   thread |-> S.thread]

EffectEntry(S, d, v) ==
  [d |-> d, kind |-> "effect", obs |-> NoObs, val |-> v, depth |-> S.depth,
   thread |-> S.thread]

\* History of a dispose(): val tells whether the reaction was already disposed
\* (0), live (1), or live and in the pending set (2).
DisposeEntry(S, d) ==
  [d |-> d, kind |-> "dispose", obs |-> NoObs, depth |-> S.depth, thread |-> S.thread,
   val |-> IF d \in DOMAIN S.disposed /\ S.disposed[d] THEN 0
           ELSE IF d \in S.pending THEN 2 ELSE 1]

RECURSIVE ScheduleAll(_, _, _)
RECURSIVE schedule(_, _, _)
RECURSIVE Derivation_run(_, _, _)
RECURSIVE Computed_run(_, _, _)
RECURSIVE Reaction_run(_, _, _)
RECURSIVE DataReaction_run(_, _, _)
RECURSIVE Computed_get(_, _, _)
RECURSIVE Computed_recompute(_, _)
RECURSIVE Fn(_, _)
RECURSIVE Evaluate(_, _)
RECURSIVE ReadNode(_, _, _)
RECURSIVE Observable_set_direct(_, _, _, _)
RECURSIVE Observable_notify(_, _, _)
RECURSIVE effect_fn(_, _, _, _)
RECURSIVE flush_pending(_, _)
RECURSIVE RunBatch(_, _, _)

\* F applied to the value of v: v is evaluated once, before F uses it.
Bind(v, F(_)) == CHOOSE r \in {F(x) : x \in {v}} : TRUE

\* observable.py get(): the edge is registered in both directions.
Track(S, cur, n) ==
  IF cur = None THEN S
  ELSE [S EXCEPT !.observers[n] = @ \cup {cur}, !.dependencies[cur] = @ \cup {n}]

Observable_get(S, cur, c) == [st |-> Track(S, cur, c), val |-> S.values[c]]

\* Mutant: the dependencies are cleared but the observer edges are left behind.
Detach_KeepEdges(S, d) == [S EXCEPT !.dependencies[d] = {}]

\* The loop "for dep in dependencies: dep._remove_observer(self)" and the clear().
Detach(S, d) ==
  [S EXCEPT !.observers = [n \in DOMAIN S.observers |->
                             IF n \in S.dependencies[d] THEN @[n] \ {d} ELSE @[n]],
            !.dependencies[d] = {}]

\* Mutant: schedule() that ignores the batch depth.
schedule_NoDefer(S, cur, d) == Derivation_run(S, cur, d)

\* _tracking.schedule
schedule(S, cur, d) ==
  IF S.depth > 0 THEN [S EXCEPT !.pending = @ \cup {d}]
  ELSE Derivation_run(S, cur, d)

\* Mutant: the loop goes on after an observer's _run() raised.
ScheduleAll_Continue(S, cur, snapshot) ==
  IF snapshot = <<>> THEN S
  ELSE Bind(schedule(S, cur, Head(snapshot)),
            LAMBDA S1 : Bind(Tail(snapshot), LAMBDA rest : ScheduleAll(S1, cur, rest)))

\* "for observer in list(observers): schedule(observer)" over a snapshot
\* a failure raised by an observer's _run() leaves the loop
ScheduleAll(S, cur, snapshot) ==
  IF snapshot = <<>> \/ S.exc # None THEN S
  ELSE Bind(schedule(S, cur, Head(snapshot)),
            LAMBDA S1 : Bind(Tail(snapshot), LAMBDA rest : ScheduleAll(S1, cur, rest)))

Observable_notify(S, cur, n) ==
  Bind(Order(S.observers[n], S.ord), LAMBDA snapshot : ScheduleAll(S, cur, snapshot))

\* Mutant: _set_direct() without the equality test.
Observable_set_direct_NoCompare(S, cur, c, v) ==
  Bind([S EXCEPT !.values[c] = v], LAMBDA S1 : Observable_notify(S1, cur, c))

Observable_set_direct(S, cur, c, v) ==
  IF S.values[c] # v
  THEN Bind([S EXCEPT !.values[c] = v], LAMBDA S1 : Observable_notify(S1, cur, c))
  ELSE S

\* The closure "lambda v=value: self._set_direct(v)" handed to the scheduler.
Closure(S, c, v) == [cell |-> c, val |-> v, src |-> S.thread]

\* Mutant: the closure goes to the front of the queue.
Observable_set_Lifo(S, cur, c, v) ==
  IF S.scheduler # None /\ S.thread # S.scheduler
  THEN [S EXCEPT !.marshal = <<Closure(S, c, v)>> \o @]
  ELSE Observable_set_direct(S, cur, c, v)

\* Mutant: set() that never looks at the scheduler.
Observable_set_Direct(S, cur, c, v) == Observable_set_direct(S, cur, c, v)

Observable_set(S, cur, c, v) ==
  IF S.scheduler # None /\ S.thread # S.scheduler
  THEN [S EXCEPT !.marshal = Append(@, Closure(S, c, v))]
  ELSE Observable_set_direct(S, cur, c, v)

\* derivation._run(): dispatch on the class of the handle (a Computed has a
\* dirty flag, a _DataReaction has a _last_value)
Derivation_run(S, cur, d) ==
  IF d \in DOMAIN S.dirty THEN Computed_run(S, cur, d)
  ELSE IF d \in DOMAIN S.last_value THEN DataReaction_run(S, cur, d)
  ELSE Reaction_run(S, cur, d)

\* Mutant: _run() that also calls the function of the Computed.
Computed_run_Recompute(S, cur, k) ==
  IF ~S.dirty[k]
  THEN Bind(Computed_recompute(S, k),
            LAMBDA S0 : Bind([S0 EXCEPT !.dirty[k] = TRUE],
              LAMBDA S1 : Bind(Order(S1.observers[k], S1.ord),
                               LAMBDA snapshot : ScheduleAll(S1, cur, snapshot))))
  ELSE S

\* Computed._run: "if not dirty: dirty = True; for observer in list(observers):
\* schedule(observer)"
Computed_run(S, cur, k) ==
  IF ~S.dirty[k]
  THEN Bind([S EXCEPT !.dirty[k] = TRUE],
            LAMBDA S1 : Bind(Order(S1.observers[k], S1.ord),
                             LAMBDA snapshot : ScheduleAll(S1, cur, snapshot)))
  ELSE S

\* The evaluation res of d's function, appended to the history.
Logged(res, d) == [res.st EXCEPT !.log = Append(@, RunEntry(res.st, d, res))]

\* Mutant: the reset of current_derivation is skipped when the function raises.
Evaluate_NoFinally(S, d) ==
  Bind(Fn([S EXCEPT !.current = d], d),
       LAMBDA res : IF res.st.exc # None THEN res ELSE [res EXCEPT !.st.current = S.current])

\* "token = current_derivation.set(self); try: fn() finally:
\* current_derivation.reset(token)"
Evaluate(S, d) ==
  Bind(Fn([S EXCEPT !.current = d], d),
       LAMBDA res : [res EXCEPT !.st.current = S.current])

\* Mutant: the dirty flag is cleared also when the function raised.
Computed_recompute_MarkClean(S, k) ==
  Bind(Detach(S, k),
       LAMBDA S1 : Bind(Evaluate(S1, k),
                        LAMBDA res : IF res.st.exc # None
                                     THEN [Logged(res, k) EXCEPT !.dirty[k] = FALSE]
                                     ELSE [Logged(res, k) EXCEPT !.cached[k] = res.val,
                                                                 !.dirty[k] = FALSE]))

\* When the function raises, neither the cache nor the dirty flag is written.
Computed_recompute(S, k) ==
  Bind(Detach(S, k),
       LAMBDA S1 : Bind(Evaluate(S1, k),
                        LAMBDA res : IF res.st.exc # None THEN Logged(res, k)
                                     ELSE [Logged(res, k) EXCEPT !.cached[k] = res.val,
                                                                 !.dirty[k] = FALSE]))

\* Mutant: get() that recomputes on every read.
Computed_get_Eager(S, cur, k) ==
  Bind(Track(S, cur, k),
       LAMBDA S1 : Bind(Computed_recompute(S1, k),
                        LAMBDA S2 : [st |-> S2, val |-> S2.cached[k]]))

Computed_get(S, cur, k) ==
  Bind(Track(S, cur, k),
       LAMBDA S1 : Bind(IF S1.dirty[k] THEN Computed_recompute(S1, k) ELSE S1,
                        LAMBDA S2 : [st |-> S2, val |-> S2.cached[k]]))

\* ObservableList.__len__ and ObservableDict.__len__: _track(), then the length.
\* A dict is a function on DictKeys in which an absent key holds UNSET.
List_len(S, cur, l) == [st |-> Track(S, cur, l), val |-> Len(S.values[l])]

Present(data) == {k \in DOMAIN data : data[k] # UNSET}

Dict_len(S, cur, d) == [st |-> Track(S, cur, d), val |-> Cardinality(Present(S.values[d]))]

ReadNode(S, cur, n) ==
  IF n \in DOMAIN S.dirty THEN Computed_get(S, cur, n)
  ELSE IF n \in Lists THEN List_len(S, cur, n)
  ELSE IF n \in Dicts THEN Dict_len(S, cur, n)
  ELSE Observable_get(S, cur, n)

\* Read n inside an evaluation result r (threads the state, records the read).
\* A function that has raised reads nothing more.
Then(r, cur, n) ==
  IF r.st.exc # None THEN r
  ELSE Bind(ReadNode(r.st, cur, n),
            LAMBDA g : [st |-> g.st, val |-> g.val, obs |-> [r.obs EXCEPT ![n] = g.val]])

Start(S) == [st |-> S, val |-> 0, obs |-> [n \in DOMAIN S.observers |-> NoRead]]

\* Computed.dispose: the edges to its dependencies are removed, its observers
\* set is cleared (the observers keep it in their dependencies), and it is
\* dirty with no cached value again.
Computed_dispose(S, k) ==
  Bind(Detach(S, k),
       LAMBDA S1 : [S1 EXCEPT !.observers[k] = {}, !.dirty[k] = TRUE,
                              !.cached[k] = UNSET])

\* Reaction.dispose and _DataReaction.dispose
Reaction_dispose(S, r) ==
  Bind([S EXCEPT !.disposed[r] = TRUE, !.log = Append(@, DisposeEntry(S, r))],
       LAMBDA S1 : Detach(S1, r))

\* "for d in self._reaction_disposers: d.dispose()"
RECURSIVE DisposeAll(_, _)
DisposeAll(S, ds) ==
  IF ds = <<>> THEN S
  ELSE Bind(Reaction_dispose(S, Head(ds)),
            LAMBDA S1 : Bind(Tail(ds), LAMBDA rest : DisposeAll(S1, rest)))

Store_dispose_reactions(S) ==
  Bind(DisposeAll(S, S.store.disposers),
       LAMBDA S1 : [S1 EXCEPT !.store.disposers = <<>>])

Store_dispose(S) == Store_dispose_reactions(S)

\* Store.get inside an evaluation: a missing key returns None and tracks nothing.
StoreThen(r, cur, key) ==
  IF key \in r.st.store.keys THEN Then(r, cur, key) ELSE r

Store_set(S, cur, key, v) ==
  IF key \in S.store.keys THEN Observable_set(S, cur, key, v) ELSE S

\* The wrapped functions, evaluated with the derivation as current_derivation.
Fn_dbl(S) ==
  Bind(Then(Start(S), "dbl", "a"), LAMBDA r : [r EXCEPT !.val = r.obs["a"] * 2])

Fn_quad(S) ==
  Bind(Then(Start(S), "quad", "dbl"), LAMBDA r : [r EXCEPT !.val = r.obs["dbl"] * 2])

Fn_sel(S) ==
  Bind(Then(Start(S), "sel", "flag"),
       LAMBDA r1 : IF r1.val # 0 THEN Then(r1, "sel", "a") ELSE Then(r1, "sel", "b"))

Fn_rsum(S) ==
  Bind(Then(Start(S), "rsum", "dbl"),
       LAMBDA r1 : Bind(Then(r1, "rsum", "sel"),
                        LAMBDA r2 : [r2 EXCEPT !.val = r1.val + r2.val]))

Fn_rsel(S) ==
  Bind(Then(Start(S), "rsel", "flag"),
       LAMBDA r1 : IF r1.val # 0 THEN Then(r1, "rsel", "a") ELSE Then(r1, "rsel", "out"))

Fn_rpar(S) ==
  Bind(Then(Start(S), "rpar", "a"), LAMBDA r : [r EXCEPT !.val = r.obs["a"] % 2])

\* lambda: seen.append((store.get("count"), store.get("extra")))
Fn_watch(S, d) ==
  Bind(StoreThen(Start(S), d, "count"),
       LAMBDA r1 : Bind(StoreThen(r1, d, "extra"),
                        LAMBDA r2 : [r2 EXCEPT !.val = r1.val]))

\* lambda: store.get("count") % 2
Fn_parity(S, d) ==
  Bind(StoreThen(Start(S), d, "count"), LAMBDA r : [r EXCEPT !.val = r.val % 2])

\* if store.get("stop"): store.dispose()
Fn_reaper(S) ==
  Bind(StoreThen(Start(S), "reaper", "stop"),
       LAMBDA r : IF r.val # 0 THEN [r EXCEPT !.st = Store_dispose(r.st)] ELSE r)

\* if store.get("count") == MaxVal: raise ValueError
Fn_check(S) ==
  Bind(StoreThen(Start(S), "check", "count"),
       LAMBDA r : IF r.val = MaxVal THEN [r EXCEPT !.st.exc = "ValueError"] ELSE r)

\* size = Computed(lambda: len(lst))
Fn_size(S) == Then(Start(S), "size", "lst")

\* autorun(lambda: seen.append((x.get(), y.get())))
Fn_rx(S) ==
  Bind(Then(Start(S), "rx", "x"),
       LAMBDA r1 : Bind(Then(r1, "rx", "y"), LAMBDA r2 : [r2 EXCEPT !.val = r1.val]))

\* autorun(lambda: seen.append((len(lst), size.get())))
Fn_rl(S) ==
  Bind(Then(Start(S), "rl", "lst"),
       LAMBDA r1 : Bind(Then(r1, "rl", "size"), LAMBDA r2 : [r2 EXCEPT !.val = r1.val]))

\* autorun(lambda: seen.append(len(dct)))
Fn_rd(S) == Then(Start(S), "rd", "dct")

\* The call of the user's function by _safe, directly or through
\* app.call_from_thread (which calls it at once, as the app of the tests does).
SafeEntry(S, d) ==
  [d |-> d, kind |-> IF S.thread # MainThread THEN "call_from_thread" ELSE "call",
   obs |-> NoObs, val |-> 0, depth |-> S.depth, thread |-> S.thread]

\* Mutant: _guarded without "if not is_safe(app): return".
guarded_NoCheck(d) == TRUE

\* _guarded: whether it goes on to _safe
guarded(d) == is_safe(AppOf(d))

\* textual.autorun(appA, lambda: seen.append(o.get())): the _guarded of ta
Fn_ta(S) ==
  IF ~guarded("ta") THEN Start(S)
  ELSE Then(Start([S EXCEPT !.log = Append(@, SafeEntry(S, "ta"))]), "ta", "o")

\* textual.reaction(appA, lambda: o.get(), effects.append): the data function
Fn_tr(S) == Then(Start(S), "tr", "o")

\* textual.reaction: the _guarded that is the effect of tr
guarded_effect(S, r) ==
  IF ~guarded(r) THEN S ELSE [S EXCEPT !.log = Append(@, SafeEntry(S, r))]

\* def once(): if halt.get(): handle.dispose()
\*             seen.append(n.get())
Fn_once(S) ==
  Bind(Then(Start(S), "once", "halt"),
       LAMBDA r1 : IF r1.val # 0
                   THEN Then([r1 EXCEPT !.st = Reaction_dispose(r1.st, "once")], "once", "n")
                   ELSE Then(r1, "once", "n"))

\* def toggler(): if t.get(): sw.set(0)
\* The reads are registered on current_derivation as the state holds it.
Fn_toggler(S) ==
  Bind(Then(Start(S), S.current, "t"),
       LAMBDA r1 : IF r1.val # 0
                   THEN [r1 EXCEPT !.st = Observable_set(r1.st, r1.st.current, "sw", 0)]
                   ELSE r1)

\* def reader():
\*     if sw.get(): c1.get(); t.set(1)
\*     else: c2.get()
\*     z.get()
Fn_reader(S) ==
  Bind(Then(Start(S), S.current, "sw"),
       LAMBDA r1 :
         IF r1.val # 0
         THEN Bind(Then(r1, r1.st.current, "c1"),
                LAMBDA r2 : Bind([r2 EXCEPT !.st = Observable_set(r2.st, r2.st.current, "t", 1)],
                  LAMBDA r3 : Then(r3, r3.st.current, "z")))
         ELSE Bind(Then(r1, r1.st.current, "c2"),
                LAMBDA r2 : Then(r2, r2.st.current, "z")))

\* gate = reaction(lambda: t.get(), lambda v: seen.append((v, e.get())))
Fn_gate(S) == Then(Start(S), S.current, "t")

\* def fragile():
\*     if p.get(): q.get(); raise ValueError
\*     return w.get()
\* risky = Computed(fragile); autorun(fragile) is strict.
Fn_fragile(S) ==
  Bind(Then(Start(S), S.current, "p"),
       LAMBDA r1 : IF r1.val # 0
                   THEN Bind(Then(r1, r1.st.current, "q"),
                             LAMBDA r2 : [r2 EXCEPT !.st.exc = "ValueError"])
                   ELSE Then(r1, r1.st.current, "w"))

\* def user(): risky.get(); q.get()
Fn_user(S) ==
  Bind(Then(Start(S), S.current, "risky"), LAMBDA r1 : Then(r1, r1.st.current, "q"))

Fn(S, d) ==
  CASE d = "dbl" -> Fn_dbl(S)
    [] d \in {"risky", "strict"} -> Fn_fragile(S)
    [] d = "user" -> Fn_user(S)
    [] d = "toggler" -> Fn_toggler(S)
    [] d = "reader" -> Fn_reader(S)
    [] d = "gate" -> Fn_gate(S)
    [] d = "once" -> Fn_once(S)
    [] d = "ta" -> Fn_ta(S)
    [] d = "tr" -> Fn_tr(S)
    [] d = "size" -> Fn_size(S)
    [] d = "rx" -> Fn_rx(S)
    [] d = "rl" -> Fn_rl(S)
    [] d = "rd" -> Fn_rd(S)
    [] d = "quad" -> Fn_quad(S)
    [] d = "sel" -> Fn_sel(S)
    [] d = "rsum" -> Fn_rsum(S)
    [] d = "rsel" -> Fn_rsel(S)
    [] d = "rpar" -> Fn_rpar(S)
    [] d \in StoreDataReactions -> Fn_parity(S, d)
    [] d = "reaper" -> Fn_reaper(S)
    [] d = "check" -> Fn_check(S)
    [] OTHER -> Fn_watch(S, d)

\* Mutant: _run() without the test of the disposed flag.
Reaction_run_NoGuard(S, cur, r) ==
  Bind(Detach(S, r), LAMBDA S1 : Bind(Evaluate(S1, r), LAMBDA res : Logged(res, r)))

Reaction_run(S, cur, r) ==
  IF S.disposed[r] THEN S
  ELSE Bind(Detach(S, r), LAMBDA S1 : Bind(Evaluate(S1, r), LAMBDA res : Logged(res, r)))

\* The effect runs after current_derivation was reset to the caller's value.
\* rpar's effect writes out; gate's effect reads e; the effect of a store
\* reaction appends to a list.
effect_fn(S, cur, r, v) ==
  Bind([S EXCEPT !.log = Append(@, EffectEntry(S, r, v))],
       LAMBDA S1 : IF r = "rpar" THEN Observable_set(S1, cur, "out", v)
                   ELSE IF r = "gate" THEN Observable_get(S1, S1.current, "e").st
                   ELSE IF r \in BridgeDataReactions THEN guarded_effect(S1, r) ELSE S1)

\* _DataReaction._run after data_fn returned res in state S2.
Forward(S2, cur, r, res) ==
  IF ~S2.initialized[r] \/ res.val # S2.last_value[r]
  THEN Bind([S2 EXCEPT !.last_value[r] = res.val, !.initialized[r] = TRUE],
            LAMBDA S3 : effect_fn(S3, cur, r, res.val))
  ELSE S2

\* Mutant: the effect is forwarded on every trigger.
DataReaction_run_Ungated(S, cur, r) ==
  IF S.disposed[r] THEN S
  ELSE Bind(Detach(S, r),
            LAMBDA S1 : Bind(Evaluate(S1, r),
              LAMBDA res : Bind([Logged(res, r) EXCEPT !.last_value[r] = res.val,
                                                       !.initialized[r] = TRUE],
                LAMBDA S3 : effect_fn(S3, cur, r, res.val))))

DataReaction_run(S, cur, r) ==
  IF S.disposed[r] THEN S
  ELSE Bind(Detach(S, r),
            LAMBDA S1 : Bind(Evaluate(S1, r),
              LAMBDA res : Bind(Logged(res, r),
                LAMBDA S2 : IF S2.exc # None THEN S2 ELSE Forward(S2, cur, r, res))))

\* Mutant: only the first derivation of the snapshot is run.
RunBatch_HeadOnly(S, cur, batch) ==
  IF batch = <<>> THEN S ELSE Derivation_run(S, cur, Head(batch))

\* "for derivation in batch: derivation._run()"
RunBatch(S, cur, batch) ==
  IF batch = <<>> \/ S.exc # None THEN S
  ELSE Bind(Derivation_run(S, cur, Head(batch)),
            LAMBDA S1 : Bind(Tail(batch), LAMBDA rest : RunBatch(S1, cur, rest)))

\* Mutant: one pass over the pending set, which is not cleared.
flush_pending_Leave(S, cur) ==
  Bind(Order(S.pending, S.ord), LAMBDA batch : RunBatch(S, cur, batch))

\* _flush_pending: "while _pending: batch = list(_pending); _pending.clear();
\* for derivation in batch: derivation._run()"
flush_pending(S, cur) ==
  IF S.pending = {} \/ S.exc # None THEN S
  ELSE Bind(Order(S.pending, S.ord),
            LAMBDA batch : Bind([S EXCEPT !.pending = {}],
              LAMBDA S1 : Bind(RunBatch(S1, cur, batch),
                LAMBDA S2 : flush_pending(S2, cur))))

begin_batch(S) == [S EXCEPT !.depth = @ + 1]

\* Mutant: every scope exit flushes, not only the outermost.
end_batch_AlwaysFlush(S, cur) ==
  Bind([S EXCEPT !.depth = @ - 1], LAMBDA S1 : flush_pending(S1, cur))

end_batch(S, cur) ==
  Bind([S EXCEPT !.depth = @ - 1],
       LAMBDA S1 : IF S1.depth = 0 THEN flush_pending(S1, cur) ELSE S1)

\* ------------------------------------------------------------ construction
\* reaction.py autorun(fn): Reaction(fn) and the initial r._run()
autorun(S, r) == Reaction_run(S, None, r)

\* reaction.py reaction(data_fn, effect_fn), fire_immediately=False: data_fn is
\* evaluated under the new derivation and the effect is suppressed.
reaction_Fires(S, r) == DataReaction_run(S, None, r)

reaction(S, r) ==
  Bind(Evaluate(S, r),
       LAMBDA res : [Logged(res, r) EXCEPT !.last_value[r] = res.val,
                                           !.initialized[r] = TRUE])

\* No Store was constructed.
NoStore == [keys |-> {}, disposers |-> <<>>, setups |-> 0]

\* Observable(v), Computed(fn) and Reaction(fn) constructors: the fresh tables.
Fresh(v) ==
  [values |-> v,
   observers |-> [n \in Nodes |-> {}],
   dependencies |-> [d \in Derivations |-> {}],
   dirty |-> [k \in Computeds |-> TRUE],
   cached |-> [k \in Computeds |-> UNSET],
   disposed |-> [r \in Reactions |-> FALSE],
   last_value |-> [r \in DataReactions |-> UNSET],
   initialized |-> [r \in DataReactions |-> FALSE],
   depth |-> 0, pending |-> {}, log |-> <<>>, ord |-> 0,
   scheduler |-> None, marshal |-> <<>>, store |-> NoStore,
   thread |-> MainThread, exc |-> None, ret |-> UNSET, sub |-> <<>>,
   current |-> None]

Constructed(v) ==
  Bind(Fresh(v),
       LAMBDA S0 : Bind(autorun(S0, "rsum"),
         LAMBDA S1 : Bind(autorun(S1, "rsel"),
           LAMBDA S2 : reaction(S2, "rpar"))))

\* ------------------------------------------------------ the Store program
Range(seq) == {seq[i] : i \in 1..Len(seq)}

\* Every schema of the program gives its keys the default 0.
Default == 0

\* reaction(data_fn, effect_fn, fire_immediately=True): the initial r._run()
reaction_immediate(S, r) == DataReaction_run(S, None, r)

\* The setup function of the i-th reconcile:
\*   return [autorun(watch), reaction(parity, effects.append, fire_immediately=fire)]
\* setups counts the calls (each call registers reactions of its own).
setup_fn(S, fire) ==
  Bind(S.store.setups + 1,
       LAMBDA i : Bind(autorun([S EXCEPT !.store.setups = i], Watchers[i]),
         LAMBDA S1 : Bind(IF fire THEN reaction_immediate(S1, Parities[i])
                                  ELSE reaction(S1, Parities[i]),
           LAMBDA S2 : [st |-> S2, ret |-> <<Watchers[i], Parities[i]>>])))

\* "for key, default in schema.items(): if key not in self._observables: ..."
AddKeys(S, schema) ==
  [S EXCEPT !.values = [k \in DOMAIN S.values |->
                          IF k \in Range(schema) \ S.store.keys THEN Default ELSE @[k]],
            !.store.keys = @ \cup Range(schema)]

\* Mutant: reconcile() that leaves the previous reactions registered.
Store_reconcile_NoDispose(S, schema, fire) ==
  Bind(AddKeys(S, schema),
       LAMBDA S1 : Bind(setup_fn(S1, fire),
         LAMBDA res : [res.st EXCEPT !.store.disposers = res.ret]))

Store_reconcile(S, schema, fire) ==
  Bind(AddKeys(S, schema),
       LAMBDA S1 : Bind(Store_dispose_reactions(S1),
         LAMBDA S2 : Bind(setup_fn(S2, fire),
           LAMBDA res : [res.st EXCEPT !.store.disposers = res.ret])))

\* Where the setup_fn of a hot reload raises RuntimeError: at once, after it
\* registered the autorun, after it registered the reaction too, or never.
FailPoints == {"start", "between", "end", "never"}

setup_fn_failing(S, fire, fail) ==
  IF fail = "start" THEN [st |-> [S EXCEPT !.exc = "RuntimeError"], ret |-> <<>>]
  ELSE IF fail = "between"
  THEN Bind(S.store.setups + 1,
            LAMBDA i : Bind(autorun([S EXCEPT !.store.setups = i], Watchers[i]),
              LAMBDA S1 : [st |-> [S1 EXCEPT !.exc = "RuntimeError"], ret |-> <<>>]))
  ELSE IF fail = "end"
  THEN Bind(setup_fn(S, fire), LAMBDA res : [res EXCEPT !.st.exc = "RuntimeError"])
  ELSE setup_fn(S, fire)

\* Mutant: the reconcile of Store, without the try / except.
HotReloadStore_reconcile_Unsafe(S, schema, fire, fail) ==
  Bind(AddKeys(S, schema),
       LAMBDA S1 : Bind(Store_dispose_reactions(S1),
         LAMBDA S2 : Bind(setup_fn_failing(S2, fire, fail),
           LAMBDA res : IF res.st.exc # None THEN res.st
                        ELSE [res.st EXCEPT !.store.disposers = res.ret])))

\* HotReloadStore.reconcile: "except Exception: ...; self._reaction_disposers = []"
HotReloadStore_reconcile(S, schema, fire, fail) ==
  Bind(AddKeys(S, schema),
       LAMBDA S1 : Bind(Store_dispose_reactions(S1),
         LAMBDA S2 : Bind(setup_fn_failing(S2, fire, fail),
           LAMBDA res : IF res.st.exc # None
                        THEN [res.st EXCEPT !.exc = None, !.store.disposers = <<>>]
                        ELSE [res.st EXCEPT !.store.disposers = res.ret])))

\* "for key, value in values.items(): self.set(key, value)"
RECURSIVE SetItems(_, _, _)
SetItems(S, cur, items) ==
  IF items = <<>> \/ S.exc # None THEN S
  ELSE Bind(Store_set(S, cur, Head(items)[1], Head(items)[2]),
            LAMBDA S1 : Bind(Tail(items), LAMBDA rest : SetItems(S1, cur, rest)))

\* Store.update is wrapped in @action: begin_batch(), the body, end_batch().
Store_update(S, cur, items) ==
  Bind(begin_batch(S),
       LAMBDA S1 : Bind(SetItems(S1, cur, items), LAMBDA S2 : end_batch(S2, cur)))

\* The function the program wraps in @action or runs in a `with transaction()`
\* block: store.set("count", v), then raise WorkError or return v.
work(S, cur, v, fail) ==
  Bind(Store_set(S, cur, "count", v),
       LAMBDA S1 : IF S1.exc # None THEN S1
                   ELSE IF fail THEN [S1 EXCEPT !.exc = "WorkError"]
                   ELSE [S1 EXCEPT !.ret = v])

Finally_KeepWork(S, cur) ==
  Bind(end_batch([S EXCEPT !.exc = None, !.ret = UNSET], cur),
       LAMBDA S1 : [S1 EXCEPT !.exc = S.exc, !.ret = S.ret])

\* Mutant: end_batch() is skipped when the body raised.
Finally_NoEnd(S, cur) ==
  IF S.exc # None THEN S
  ELSE Bind(end_batch([S EXCEPT !.ret = UNSET], cur),
            LAMBDA S1 : IF S1.exc # None THEN S1 ELSE [S1 EXCEPT !.ret = S.ret])

\* "finally: end_batch()" runs on every exit path of the body; a failure it
\* raises replaces the return value or the failure of the body.
Finally(S, cur) ==
  Bind(end_batch([S EXCEPT !.exc = None, !.ret = UNSET], cur),
       LAMBDA S1 : IF S1.exc # None THEN S1 ELSE [S1 EXCEPT !.exc = S.exc, !.ret = S.ret])

\* action.wrapper: begin_batch(); try: return fn(); finally: end_batch()
action_wrapper(S, cur, v, fail) ==
  Bind(begin_batch(S),
       LAMBDA S1 : Bind(work(S1, cur, v, fail), LAMBDA S2 : Finally(S2, cur)))

\* transaction: begin_batch(); try: yield; finally: end_batch()
transaction(S, cur, v, fail) ==
  Bind(action_wrapper(S, cur, v, fail), LAMBDA S1 : [S1 EXCEPT !.ret = UNSET])

\* Store(Schema1): one Observable per key, no reaction registered yet.
FreshStore ==
  [values |-> [k \in StoreKeys |-> Default],
   observers |-> [n \in StoreKeys |-> {}],
   dependencies |-> [d \in StoreReactions |-> {}],
   dirty |-> [k \in {} |-> TRUE],
   cached |-> [k \in {} |-> UNSET],
   disposed |-> [r \in StoreReactions |-> FALSE],
   last_value |-> [r \in StoreDataReactions |-> UNSET],
   initialized |-> [r \in StoreDataReactions |-> FALSE],
   depth |-> 0, pending |-> {}, log |-> <<>>, ord |-> 0,
   scheduler |-> None, marshal |-> <<>>,
   store |-> [keys |-> Range(Schema1), disposers |-> <<>>, setups |-> 0],
   thread |-> MainThread, exc |-> None, ret |-> UNSET, sub |-> <<>>,
   current |-> None]

\* The program's start: the store, the reaper, the first reconcile, the check.
ConstructedStore(schema, fire) ==
  Bind(autorun(FreshStore, "reaper"),
       LAMBDA S1 : Bind(Store_reconcile(S1, schema, fire),
                        LAMBDA S2 : autorun(S2, "check")))

\* ----------------------------------------------------------- the feed program
\* The outcome of an operation of the underlying list or dict: the contents
\* after it, or the failure it raised with the contents as they were.
Done(items) == [items |-> items, exc |-> None]
Raise(items, e) == [items |-> items, exc |-> e]

Min(a, b) == IF a < b THEN a ELSE b

\* list operations; indexes count from 0 as in the source
list_append(s, x) == Done(Append(s, x))
list_extend(s, xs) == Done(s \o xs)
list_insert(s, i, x) ==
  Done(SubSeq(s, 1, Min(i, Len(s))) \o <<x>> \o SubSeq(s, Min(i, Len(s)) + 1, Len(s)))
list_pop(s) == IF s = <<>> THEN Raise(s, "IndexError") ELSE Done(SubSeq(s, 1, Len(s) - 1))
list_delitem(s, i) ==
  IF i < Len(s) THEN Done(SubSeq(s, 1, i) \o SubSeq(s, i + 2, Len(s)))
  ELSE Raise(s, "IndexError")
list_remove(s, x) ==
  IF \E i \in 1..Len(s) : s[i] = x
  THEN list_delitem(s, (CHOOSE i \in 1..Len(s) : s[i] = x /\ \A j \in 1..(i - 1) : s[j] # x) - 1)
  ELSE Raise(s, "ValueError")
list_clear(s) == Done(<<>>)
list_setitem(s, i, x) ==
  IF i < Len(s) THEN Done([s EXCEPT ![i + 1] = x]) ELSE Raise(s, "IndexError")

\* dict operations
dict_setitem(data, k, v) == Done([data EXCEPT ![k] = v])
dict_delitem(data, k) ==
  IF data[k] = UNSET THEN Raise(data, "KeyError") ELSE Done([data EXCEPT ![k] = UNSET])
dict_pop(data, k) == dict_delitem(data, k)
dict_update(data, other) ==
  Done([k \in DOMAIN data |-> IF other[k] # UNSET THEN other[k] ELSE data[k]])
dict_clear(data) == Done([k \in DOMAIN data |-> UNSET])

Mutate_NoNotify(S, cur, n, res) ==
  IF res.exc # None THEN [S EXCEPT !.exc = res.exc] ELSE [S EXCEPT !.values[n] = res.items]

\* A mutator of ObservableList or ObservableDict: the operation on the
\* underlying contents, then self._notify(); a failure of the operation leaves
\* the method before the _notify().  No mutator looks at the scheduler.
Mutate(S, cur, n, res) ==
  IF res.exc # None THEN [S EXCEPT !.exc = res.exc]
  ELSE Bind([S EXCEPT !.values[n] = res.items], LAMBDA S1 : Observable_notify(S1, cur, n))

\* ObservableDict.setdefault: "if key not in self._data: ...; self._notify()"
Dict_setdefault(S, cur, d, k, v) ==
  IF S.values[d][k] = UNSET THEN Mutate(S, cur, d, dict_setitem(S.values[d], k, v)) ELSE S

\* set_scheduler: _scheduler_thread = threading.current_thread()
set_scheduler(S) == [S EXCEPT !.scheduler = S.thread]

\* The scheduler runs the closure "lambda v=value: self._set_direct(v)" on the
\* owner thread.
RunHead(S, cur) ==
  Bind(Head(S.marshal),
       LAMBDA cl : Observable_set_direct([S EXCEPT !.marshal = Tail(@), !.thread = S.scheduler],
                                         cur, cl.cell, cl.val))

EmptyDict == [k \in DictKeys |-> UNSET]

FreshFeed ==
  [values |-> [n \in FeedCells \cup Lists \cup Dicts |->
                 IF n \in Lists THEN <<>> ELSE IF n \in Dicts THEN EmptyDict ELSE 0],
   observers |-> [n \in FeedNodes |-> {}],
   dependencies |-> [d \in FeedDerivations |-> {}],
   dirty |-> [k \in FeedComputeds |-> TRUE],
   cached |-> [k \in FeedComputeds |-> UNSET],
   disposed |-> [r \in FeedAutoruns |-> FALSE],
   last_value |-> [r \in {} |-> UNSET],
   initialized |-> [r \in {} |-> FALSE],
   depth |-> 0, pending |-> {}, log |-> <<>>, ord |-> 0,
   scheduler |-> None, marshal |-> <<>>, store |-> NoStore,
   thread |-> MainThread, exc |-> None, ret |-> UNSET,
   sub |-> [w \in WorkerWrites |-> UNSET], current |-> None]

\* The program's start: the autoruns in creation order (size is lazy).
ConstructedFeed ==
  Bind(autorun(FreshFeed, "rx"),
       LAMBDA S1 : Bind(autorun(S1, "rl"), LAMBDA S2 : autorun(S2, "rd")))

\* halt = Observable(0); n = Observable(0), before the autorun is made
FreshOnce ==
  [values |-> [c \in OnceCells |-> 0],
   observers |-> [c \in OnceCells |-> {}],
   dependencies |-> [d \in {"once"} |-> {}],
   dirty |-> [k \in {} |-> TRUE],
   cached |-> [k \in {} |-> UNSET],
   disposed |-> [r \in {"once"} |-> FALSE],
   last_value |-> [r \in {} |-> UNSET],
   initialized |-> [r \in {} |-> FALSE],
   depth |-> 0, pending |-> {}, log |-> <<>>, ord |-> 0,
   scheduler |-> None, marshal |-> <<>>, store |-> NoStore,
   thread |-> MainThread, exc |-> None, ret |-> UNSET, sub |-> <<>>,
   current |-> None]

\* handle = autorun(once)
ConstructedOnce == autorun(FreshOnce, "once")

\* The Textual program before its derivations are made.
FreshBridge ==
  [values |-> [n \in {"o"} |-> 0],
   observers |-> [n \in {"o"} |-> {}],
   dependencies |-> [d \in BridgeDerivations |-> {}],
   dirty |-> [k \in {} |-> TRUE],
   cached |-> [k \in {} |-> UNSET],
   disposed |-> [r \in BridgeDerivations |-> FALSE],
   last_value |-> [r \in BridgeDataReactions |-> UNSET],
   initialized |-> [r \in BridgeDataReactions |-> FALSE],
   depth |-> 0, pending |-> {}, log |-> <<>>, ord |-> 0,
   scheduler |-> None, marshal |-> <<>>, store |-> NoStore,
   thread |-> MainThread, exc |-> None, ret |-> UNSET,
   sub |-> [w \in {} |-> UNSET], current |-> None]

\* textual.autorun(appA, ...), then textual.reaction(appA, ..., ...)
ConstructedBridge == Bind(autorun(FreshBridge, "ta"), LAMBDA S1 : reaction(S1, "tr"))

\* The failing program before its derivations are made, with cell values v.
FreshFail(v) ==
  [values |-> v,
   observers |-> [n \in FailCells \cup {"risky"} |-> {}],
   dependencies |-> [d \in FailDerivations |-> {}],
   dirty |-> [k \in {"risky"} |-> TRUE],
   cached |-> [k \in {"risky"} |-> UNSET],
   disposed |-> [r \in {"strict", "user"} |-> FALSE],
   last_value |-> [r \in {} |-> UNSET],
   initialized |-> [r \in {} |-> FALSE],
   depth |-> 0, pending |-> {}, log |-> <<>>, ord |-> 0,
   scheduler |-> None, marshal |-> <<>>, store |-> NoStore,
   thread |-> MainThread, exc |-> None, ret |-> UNSET, sub |-> <<>>,
   current |-> None]

\* risky = Computed(fragile); autorun(fragile); autorun(user)
ConstructedFail(v) ==
  Bind(autorun(FreshFail(v), "strict"), LAMBDA S1 : autorun(S1, "user"))

\* The re-entrant program before its derivations are made, with cell values v.
FreshNest(v) ==
  [values |-> v,
   observers |-> [n \in NestCells |-> {}],
   dependencies |-> [d \in NestDerivations |-> {}],
   dirty |-> [k \in {} |-> TRUE],
   cached |-> [k \in {} |-> UNSET],
   disposed |-> [r \in NestDerivations |-> FALSE],
   last_value |-> [r \in {"gate"} |-> UNSET],
   initialized |-> [r \in {"gate"} |-> FALSE],
   depth |-> 0, pending |-> {}, log |-> <<>>, ord |-> 0,
   scheduler |-> None, marshal |-> <<>>, store |-> NoStore,
   thread |-> MainThread, exc |-> None, ret |-> UNSET, sub |-> <<>>,
   current |-> None]

\* autorun(toggler); autorun(reader); gate = reaction(...)
ConstructedNest(v) ==
  Bind(autorun(FreshNest(v), "toggler"),
       LAMBDA S1 : Bind(autorun(S1, "reader"), LAMBDA S2 : reaction(S2, "gate")))

\* --------------------------------------------------------------- history
Max(set) == CHOOSE x \in set : \A y \in set : y <= x

RunsOf(lg, from, d) == {i \in (from + 1)..Len(lg) : lg[i].d = d /\ lg[i].kind = "run"}

EffectsOf(lg, from, d) ==
  {i \in (from + 1)..Len(lg) : lg[i].d = d /\ lg[i].kind = "effect"}

NewObs(old, lg, from) ==
  [d \in DOMAIN old |->
     IF RunsOf(lg, from, d) = {} THEN old[d] ELSE lg[Max(RunsOf(lg, from, d))].obs]

\* The fields are compared in the order type, was, what.
Op(type, what, was) == [type |-> type, what |-> what, was |-> was]

\* The log an operation starts from: runs are kept for the span of one top-level
\* operation, a batch counting as one.
LogFrom == IF batch_depth = 0 THEN <<>> ELSE log

Budget == batch_depth > 0 => nops < MaxBatchOps

Commit(S, n) ==
  /\ values' = S.values
  /\ observers' = S.observers
  /\ dependencies' = S.dependencies
  /\ dirty_flags' = S.dirty
  /\ cached_values' = S.cached
  /\ disposed' = S.disposed
  /\ last_value' = S.last_value
  /\ initialized' = S.initialized
  /\ batch_depth' = S.depth
  /\ pending' = S.pending
  /\ log' = S.log
  /\ lastObs' = NewObs(lastObs, S.log, Len(LogFrom))
  /\ pre' = IF batch_depth = 0 THEN values ELSE pre
  /\ mark' = Len(LogFrom)
  /\ nops' = IF S.depth = 0 THEN 0 ELSE nops + n
  /\ scheduler' = S.scheduler
  /\ marshal' = S.marshal
  /\ store' = S.store
  /\ raised' = S.exc
  /\ returned' = S.ret
  /\ lastSub' = S.sub
  /\ current' = S.current
  /\ UNCHANGED streams
  /\ UNCHANGED bridge

Init ==
  \E v \in [Cells -> Vals] :
    /\ \A c \in Cells : v[c] \in CellVals(c)
    /\ \E S \in {Constructed(v)} :
          /\ values = S.values
          /\ observers = S.observers
          /\ dependencies = S.dependencies
          /\ dirty_flags = S.dirty
          /\ cached_values = S.cached
          /\ disposed = S.disposed
          /\ last_value = S.last_value
          /\ initialized = S.initialized
          /\ batch_depth = S.depth
          /\ pending = S.pending
          /\ log = S.log
          /\ lastObs = NewObs([d \in Derivations |-> NoObs], S.log, 0)
          /\ pre = S.values
          /\ mark = 0
          /\ nops = 0
          /\ op = Op("init", None, FALSE)
          /\ scheduler = S.scheduler
          /\ marshal = S.marshal
          /\ store = S.store
          /\ raised = S.exc
          /\ returned = S.ret
          /\ lastSub = S.sub
          /\ current = S.current
          /\ NoStreams
          /\ NoPause

\* ---------------------------------------------------------------- actions
\* cell.set(v) called by the program, outside any derivation
Set(c, v, ord) ==
  /\ Budget
  /\ \E S0 \in {StateOf(ord, LogFrom)} :
       \E S \in {Observable_set(S0, None, c, v)} : Commit(S, 1)
  /\ op' = Op("set", c, values[c] # v)

\* computed.get() called by the program, outside any derivation
Get(k, ord) ==
  /\ Budget
  /\ \E S0 \in {StateOf(ord, LogFrom)} :
       \E g \in {Computed_get(S0, None, k)} : \E S \in {g.st} : Commit(S, 1)
  /\ op' = Op("get", k, dirty_flags[k])

\* entering @action / with transaction()
BeginBatch ==
  /\ batch_depth < MaxDepth
  /\ \E S \in {begin_batch(StateOf(0, LogFrom))} : Commit(S, 0)
  /\ op' = Op("begin", None, FALSE)

\* leaving @action / with transaction(): the flush happens at the outermost exit
EndBatch(ord) ==
  /\ batch_depth > 0
  /\ \E S0 \in {StateOf(ord, LogFrom)} :
       \E S \in {end_batch(S0, None)} : Commit(S, 0)
  /\ op' = Op("end", None, FALSE)

\* ------------------------------------------- actions of the Store program
\* What the program writes: a counter in count, a truth value in stop; it
\* never writes extra.
StoreVals(key) == IF key = "count" THEN Vals ELSE IF key = "stop" THEN {0, 1} ELSE {}

\* The handles the program keeps: the reactions of the first setup.
Held == {Watchers[1], Parities[1]}

\* The variables right after the program's start in call state S (the history
\* of reads is not kept for this program).
Started(S) ==
  /\ values = S.values
  /\ observers = S.observers
  /\ dependencies = S.dependencies
  /\ dirty_flags = S.dirty
  /\ cached_values = S.cached
  /\ disposed = S.disposed
  /\ last_value = S.last_value
  /\ initialized = S.initialized
  /\ batch_depth = S.depth
  /\ pending = S.pending
  /\ log = S.log
  /\ lastObs = <<>>
  /\ pre = S.values
  /\ mark = 0
  /\ nops = 0
  /\ scheduler = S.scheduler
  /\ marshal = S.marshal
  /\ store = S.store
  /\ raised = S.exc
  /\ returned = S.ret
  /\ lastSub = S.sub
  /\ current = S.current
  /\ NoStreams
  /\ NoPause

InitStore ==
  \E schema \in {Schema1, Schema2}, fire \in BOOLEAN :
    /\ \E S \in {ConstructedStore(schema, fire)} : Started(S)
    /\ op = Op("init", None, fire)

\* store.set(key, v) called by the program
StoreSet(key, v, ord) ==
  /\ Budget
  /\ \E S0 \in {StateOf(ord, LogFrom)} :
       \E S \in {Store_set(S0, None, key, v)} : Commit(S, 1)
  /\ op' = Op("set", key, key \in store.keys /\ values[key] # v)

\* store.update({"count": v, "stop": w}) called by the program
StoreUpdate(v, w, ord) ==
  /\ Budget
  /\ \E S0 \in {StateOf(ord, LogFrom)} :
       \E S \in {Store_update(S0, None, <<<<"count", v>>, <<"stop", w>>>>)} : Commit(S, 1)
  /\ op' = Op("update", None, values["count"] # v /\ values["stop"] # w)

\* store.reconcile(schema, setup_fn) called by the program
Reconcile(schema, fire) ==
  /\ Budget
  /\ store.setups < MaxSetups
  /\ \E S0 \in {StateOf(0, LogFrom)} :
       \E S \in {Store_reconcile(S0, schema, fire)} : Commit(S, 1)
  /\ op' = Op("reconcile", <<store.setups + 1, Len(schema)>>, fire)

\* The @action function called by the program
Action(v, fail, ord) ==
  /\ Budget
  /\ \E S0 \in {StateOf(ord, LogFrom)} :
       \E S \in {action_wrapper(S0, None, v, fail)} : Commit(S, 1)
  /\ op' = Op("action", v, fail)

\* The `with transaction()` block run by the program
Transaction(v, fail, ord) ==
  /\ Budget
  /\ \E S0 \in {StateOf(ord, LogFrom)} :
       \E S \in {transaction(S0, None, v, fail)} : Commit(S, 1)
  /\ op' = Op("transaction", v, fail)

\* store.dispose() called by the program
StoreDispose ==
  /\ Budget
  /\ \E S0 \in {StateOf(0, LogFrom)} :
       \E S \in {Store_dispose(S0)} : Commit(S, 1)
  /\ op' = Op("store_dispose", None, store.disposers # <<>>)

\* r.dispose() called by the program on a reaction it holds
Dispose(r) ==
  /\ Budget
  /\ \E S0 \in {StateOf(0, LogFrom)} :
       \E S \in {Reaction_dispose(S0, r)} : Commit(S, 1)
  /\ op' = Op("dispose", r, ~disposed[r])

\* The program opens transactions at the top level only; Store.update nests.
NextStore ==
  \/ \E key \in StoreKeys, v \in Vals, ord \in 0..(OrderShifts - 1) :
       v \in StoreVals(key) /\ StoreSet(key, v, ord)
  \/ \E v \in Vals, w \in {0, 1}, ord \in 0..(OrderShifts - 1) : StoreUpdate(v, w, ord)
  \/ \E schema \in {Schema1, Schema2}, fire \in BOOLEAN : Reconcile(schema, fire)
  \/ \E v \in Vals, fail \in BOOLEAN, ord \in 0..(OrderShifts - 1) : Action(v, fail, ord)
  \/ \E v \in Vals, fail \in BOOLEAN, ord \in 0..(OrderShifts - 1) : Transaction(v, fail, ord)
  \/ StoreDispose
  \/ \E r \in Held : Dispose(r)
  \/ (batch_depth = 0 /\ BeginBatch)
  \/ \E ord \in 0..(OrderShifts - 1) : EndBatch(ord)

SpecStore == InitStore /\ [][NextStore]_vars

\* The same program with a HotReloadStore.  store.reconcile(schema, setup_fn)
\* called by the program, with a setup_fn that may raise.
HotReconcile(schema, fire, fail) ==
  /\ Budget
  /\ store.setups < MaxSetups
  /\ \E S0 \in {StateOf(0, LogFrom)} :
       \E S \in {HotReloadStore_reconcile(S0, schema, fire, fail)} : Commit(S, 1)
  /\ op' = Op("hot_reconcile", <<Len(schema), fail>>, fire)

NextHot ==
  \/ \E key \in StoreKeys, v \in Vals, ord \in 0..(OrderShifts - 1) :
       v \in StoreVals(key) /\ StoreSet(key, v, ord)
  \/ \E schema \in {Schema1, Schema2}, fire \in BOOLEAN, fail \in FailPoints :
       HotReconcile(schema, fire, fail)
  \/ (batch_depth = 0 /\ BeginBatch)
  \/ \E ord \in 0..(OrderShifts - 1) : EndBatch(ord)

SpecHot == InitStore /\ [][NextHot]_vars

Next ==
  \/ \E c \in Cells, v \in Vals, ord \in 0..(OrderShifts - 1) :
       v \in CellVals(c) /\ Set(c, v, ord)
  \/ \E k \in Computeds, ord \in 0..(OrderShifts - 1) : Get(k, ord)
  \/ BeginBatch
  \/ \E ord \in 0..(OrderShifts - 1) : EndBatch(ord)

Spec == Init /\ [][Next]_vars

\* ------------------------------------------- the first program with dispose
\* computed.dispose() called by the program.  It is idempotent and invokes no
\* function, so inside a batch it is not counted among the MaxBatchOps operations.
ComputedDispose(k) ==
  /\ \E S0 \in {StateOf(0, LogFrom)} :
       \E S \in {Computed_dispose(S0, k)} : Commit(S, 0)
  /\ op' = Op("cdispose", k, cached_values[k] # UNSET)

\* The Computeds the program disposes: the chain dbl, quad.
Chain == {"dbl", "quad"}

\* The program starts with flag set and the other cells 0; it writes a, reads
\* the Computeds and disposes those of the chain, inside and outside top-level
\* transactions.
InitLazy == Init /\ values = [c \in Cells |-> IF c = "flag" THEN 1 ELSE 0]

NextLazy ==
  \/ \E v \in Vals, ord \in 0..(OrderShifts - 1) : Set("a", v, ord)
  \/ \E k \in Computeds, ord \in 0..(OrderShifts - 1) : Get(k, ord)
  \/ \E k \in Chain : ComputedDispose(k)
  \/ (batch_depth = 0 /\ BeginBatch)
  \/ \E ord \in 0..(OrderShifts - 1) : EndBatch(ord)

SpecLazy == InitLazy /\ [][NextLazy]_vars

\* ------------------------------------------------- the feed program's steps
\* The call state of an operation that thread t calls.
On(t, ord) == [StateOf(ord, LogFrom) EXCEPT !.thread = t]

InitFeed ==
  /\ \E S \in {ConstructedFeed} : Started(S)
  /\ op = Op("init", None, FALSE)

\* set_scheduler(...) called by the main thread
SetScheduler ==
  /\ \E S \in {set_scheduler(On(MainThread, 0))} : Commit(S, 0)
  /\ op' = Op("set_scheduler", MainThread, scheduler = None)

\* c.set(v) called by thread t
ThreadSet(t, c, v, ord) ==
  /\ Budget
  /\ <<t, c>> \in Writers
  /\ Len(marshal) < MaxQueue
  /\ \E S0 \in {IF t \in Workers THEN [On(t, ord) EXCEPT !.sub[<<t, c>>] = v] ELSE On(t, ord)} :
       \E S \in {Observable_set(S0, None, c, v)} : Commit(S, 1)
  /\ op' = Op("tset", <<t, c, v>>, values[c] # v)

\* The owner thread, outside its transactions, runs the oldest closure.
RunClosure(ord) ==
  /\ marshal # <<>>
  /\ batch_depth = 0
  /\ \E S0 \in {StateOf(ord, LogFrom)} :
       \E S \in {RunHead(S0, None)} : Commit(S, 0)
  /\ op' = Op("run", <<Head(marshal).src, Head(marshal).cell, Head(marshal).val>>,
              values[Head(marshal).cell] # Head(marshal).val)

\* One action per mutator, called by thread t; was: the call completes.
ListOp(t, name, arg, res, ord) ==
  /\ Budget
  /\ Len(res.items) <= MaxLen
  /\ \E S0 \in {On(t, ord)} :
       \E S \in {Mutate(S0, None, "lst", res)} : Commit(S, 1)
  /\ op' = Op(name, <<t, arg>>, res.exc = None)

ListAppend(t, x, ord) == ListOp(t, "append", x, list_append(values["lst"], x), ord)
ListExtend(t, xs, ord) == ListOp(t, "extend", xs, list_extend(values["lst"], xs), ord)
ListInsert(t, i, x, ord) == ListOp(t, "insert", <<i, x>>, list_insert(values["lst"], i, x), ord)
ListPop(t, ord) == ListOp(t, "pop", None, list_pop(values["lst"]), ord)
ListRemove(t, x, ord) == ListOp(t, "remove", x, list_remove(values["lst"], x), ord)
ListClear(t, ord) == ListOp(t, "clear", None, list_clear(values["lst"]), ord)
ListSetItem(t, i, x, ord) ==
  ListOp(t, "setitem", <<i, x>>, list_setitem(values["lst"], i, x), ord)
ListDelItem(t, i, ord) == ListOp(t, "delitem", i, list_delitem(values["lst"], i), ord)

DictOp(t, name, arg, res, ord) ==
  /\ Budget
  /\ \E S0 \in {On(t, ord)} :
       \E S \in {Mutate(S0, None, "dct", res)} : Commit(S, 1)
  /\ op' = Op(name, <<t, arg>>, res.exc = None)

DictSetItem(t, k, v, ord) ==
  DictOp(t, "dsetitem", <<k, v>>, dict_setitem(values["dct"], k, v), ord)
DictDelItem(t, k, ord) == DictOp(t, "ddelitem", k, dict_delitem(values["dct"], k), ord)
DictPop(t, k, ord) == DictOp(t, "dpop", k, dict_pop(values["dct"], k), ord)
DictUpdate(t, k, v, ord) ==
  DictOp(t, "dupdate", <<k, v>>, dict_update(values["dct"], [EmptyDict EXCEPT ![k] = v]), ord)
DictClear(t, ord) == DictOp(t, "dclear", None, dict_clear(values["dct"]), ord)

DictSetDefault(t, k, v, ord) ==
  /\ Budget
  /\ \E S0 \in {On(t, ord)} :
       \E S \in {Dict_setdefault(S0, None, "dct", k, v)} : Commit(S, 1)
  /\ op' = Op("dsetdefault", <<t, <<k, v>>>>, values["dct"][k] = UNSET)

Rotations == 0..(OrderShifts - 1)

\* The threads write the cells and t1 feeds the list; the main thread configures
\* the scheduler, runs the marshaled closures and opens top-level transactions.
NextFeed ==
  \/ SetScheduler
  \/ \E t \in Threads, c \in FeedCells, v \in FeedVals, ord \in Rotations :
       ThreadSet(t, c, v, ord)
  \/ \E ord \in Rotations : RunClosure(ord)
  \/ \E ord \in Rotations : ListAppend("t1", 1, ord)
  \/ \E ord \in Rotations : ListPop("t1", ord)
  \/ (batch_depth = 0 /\ BeginBatch)
  \/ \E ord \in Rotations : EndBatch(ord)

SpecFeed == InitFeed /\ [][NextFeed]_vars

\* The same program on the main thread alone, with every mutator of the list
\* and of the dict.
NextColl ==
  \/ \E x \in ListItems, ord \in Rotations : ListAppend(MainThread, x, ord)
  \/ \E x \in ListItems, ord \in Rotations : ListExtend(MainThread, <<x, x>>, ord)
  \/ \E i \in 0..1, x \in ListItems, ord \in Rotations : ListInsert(MainThread, i, x, ord)
  \/ \E ord \in Rotations : ListPop(MainThread, ord)
  \/ \E x \in ListItems, ord \in Rotations : ListRemove(MainThread, x, ord)
  \/ \E ord \in Rotations : ListClear(MainThread, ord)
  \/ \E i \in 0..1, x \in ListItems, ord \in Rotations : ListSetItem(MainThread, i, x, ord)
  \/ \E i \in 0..1, ord \in Rotations : ListDelItem(MainThread, i, ord)
  \/ \E k \in DictKeys, ord \in Rotations : DictSetItem(MainThread, k, 1, ord)
  \/ \E k \in DictKeys, ord \in Rotations : DictDelItem(MainThread, k, ord)
  \/ \E k \in DictKeys, ord \in Rotations : DictPop(MainThread, k, ord)
  \/ \E k \in DictKeys, ord \in Rotations : DictUpdate(MainThread, k, 2, ord)
  \/ \E ord \in Rotations : DictClear(MainThread, ord)
  \/ \E k \in DictKeys, ord \in Rotations : DictSetDefault(MainThread, k, 1, ord)
  \/ (batch_depth = 0 /\ BeginBatch)
  \/ \E ord \in Rotations : EndBatch(ord)

SpecColl == InitFeed /\ [][NextColl]_vars

\* ------------------------------------------------------ EventStream program
\* The callbacks in _subscribers: a callback of the program (cb), or the closure
\* that map, filter or debounce subscribed for its child.
UserCallback(cb) == [kind |-> "user", cb |-> cb, child |-> 0]
OperatorCallback(kind, c) == [kind |-> kind, cb |-> None, child |-> c]
Operators == {"map", "filter", "debounce"}

\* Callbacks that change the list of subscribers while they are delivered to:
\* leaver calls its own disposer, kicker the disposer of plain, and adder
\* subscribes late unless late is subscribed.
ActiveCallback(kind) == [kind |-> kind, cb |-> kind, child |-> 0]
Listeners == {"plain", "leaver", "kicker", "adder"}

\* "stream.map(lambda v: v + 1)", "stream.filter(lambda v: v % 2 == 0)"
MapFn(v) == v + 1
FilterFn(v) == v % 2 = 0

StreamsOf ==
  [subscribers |-> subscribers, children |-> children, disposed |-> stream_disposed,
   parent_disposer |-> parent_disposer, timers |-> timers, delivered |-> <<>>,
   burst |-> burst]

\* Mutant: _on_event without "timer_ref[0].cancel()".
on_event_NoCancel(T, c, v) ==
  [T EXCEPT !.timers[c] = Append(@, v), !.burst[c] = <<IF @ = <<>> THEN 1 ELSE 2, v>>]

\* debounce._on_event: cancel timer_ref[0], the timer started last, and start
\* a Timer(seconds, child.emit, args=[value])
on_event(T, c, v) ==
  [T EXCEPT !.timers[c] = Append(IF @ = <<>> THEN @ ELSE SubSeq(@, 1, Len(@) - 1), v),
            !.burst[c] = <<IF @ = <<>> THEN 1 ELSE 2, v>>]

RECURSIVE EventStream_emit(_, _, _), EmitFrom(_, _, _, _), Invoke(_, _, _, _)

\* cb(value)
Invoke(T, s, cb, v) ==
  CASE cb.kind = "user" -> [T EXCEPT !.delivered = Append(@, <<s, cb.cb, v>>)]
    [] cb.kind = "map" -> EventStream_emit(T, cb.child, MapFn(v))
    [] cb.kind = "filter" -> IF FilterFn(v) THEN EventStream_emit(T, cb.child, v) ELSE T
    [] cb.kind = "debounce" -> on_event(T, cb.child, v)
    [] cb.kind = "plain" -> [T EXCEPT !.delivered = Append(@, <<s, cb.cb, v>>)]
    [] cb.kind = "late" -> [T EXCEPT !.delivered = Append(@, <<s, cb.cb, v>>)]
    [] cb.kind = "leaver" ->
         [T EXCEPT !.delivered = Append(@, <<s, cb.cb, v>>),
                   !.subscribers[s] = list_remove(@, cb).items]
    [] cb.kind = "kicker" ->
         [T EXCEPT !.delivered = Append(@, <<s, cb.cb, v>>),
                   !.subscribers[s] = list_remove(@, ActiveCallback("plain")).items]
    [] cb.kind = "adder" ->
         [T EXCEPT !.delivered = Append(@, <<s, cb.cb, v>>),
                   !.subscribers[s] =
                      IF \E i \in 1..Len(@) : @[i] = ActiveCallback("late") THEN @
                      ELSE Append(@, ActiveCallback("late"))]

\* "for cb in self._subscribers: cb(value)", from the i-th callback on
EmitFrom(T, s, v, i) ==
  IF i > Len(T.subscribers[s]) THEN T
  ELSE Bind(Invoke(T, s, T.subscribers[s][i], v), LAMBDA T1 : EmitFrom(T1, s, v, i + 1))

\* Mutant: emit without "if self._disposed: return".
EventStream_emit_NoGuard(T, s, v) == EmitFrom(T, s, v, 1)

EventStream_emit(T, s, v) == IF T.disposed[s] THEN T ELSE EmitFrom(T, s, v, 1)

\* The _unsubscribe that subscribe(callback) returned
unsubscribe(T, s, cb) ==
  [T EXCEPT !.subscribers[s] = list_remove(@, UserCallback(cb)).items]

\* The _remove that _track_child(child) returned
remove_child(T, s, c) == [T EXCEPT !.children[s] = list_remove(@, c).items]

\* Mutant: dispose that leaves the list of children of the parent alone.
Release_KeepChild(T, s) == [T EXCEPT !.parent_disposer[s] = 0]

\* "if self._parent_disposer is not None: self._parent_disposer(); ... = None"
Release(T, s) ==
  IF T.parent_disposer[s] = 0 THEN T
  ELSE Bind(remove_child(T, T.parent_disposer[s], s),
            LAMBDA T1 : [T1 EXCEPT !.parent_disposer[s] = 0])

RECURSIVE EventStream_dispose(_, _), DisposeFrom(_, _, _)

\* "for child in self._children: child.dispose()", from the i-th child of the
\* list as it is by then
DisposeFrom(T, s, i) ==
  IF i > Len(T.children[s]) THEN T
  ELSE Bind(EventStream_dispose(T, T.children[s][i]),
            LAMBDA T1 : DisposeFrom(T1, s, i + 1))

EventStream_dispose(T, s) ==
  Bind(DisposeFrom([T EXCEPT !.disposed[s] = TRUE, !.subscribers[s] = <<>>], s, 1),
       LAMBDA T1 : Release([T1 EXCEPT !.children[s] = <<>>], s))

\* map, filter, debounce: "child._parent_disposer = self._track_child(child)",
\* then self.subscribe(the closure of the operator)
Derive(T, s, kind, c) ==
  [T EXCEPT !.children[s] = Append(@, c), !.parent_disposer[c] = s,
            !.subscribers[s] = Append(@, OperatorCallback(kind, c))]

\* ------------------------------------------------------------ stream steps
Made == 1..Len(made)

Settle(T) ==
  /\ subscribers' = T.subscribers
  /\ children' = T.children
  /\ stream_disposed' = T.disposed
  /\ parent_disposer' = T.parent_disposer
  /\ timers' = T.timers
  /\ delivered' = T.delivered
  /\ burst' = T.burst
  /\ UNCHANGED graph
  /\ UNCHANGED bridge

\* stream.emit(v) called by the program
Emit(s, v) ==
  /\ \E T \in {EventStream_emit(StreamsOf, s, v)} : Settle(T)
  /\ UNCHANGED <<made, handles>>
  /\ op' = Op("emit", <<s, v>>, stream_disposed[s])

\* stream.subscribe(cb) called by the program, which keeps the disposer; cb1
\* names the callback that the program subscribes first
Subscribe(s, cb) ==
  /\ Len(handles) < MaxSubs
  /\ handles = <<>> => cb = "cb1"
  /\ \E T \in {[StreamsOf EXCEPT !.subscribers[s] = Append(@, UserCallback(cb))]} : Settle(T)
  /\ handles' = Append(handles, [stream |-> s, cb |-> cb, called |-> FALSE])
  /\ UNCHANGED made
  /\ op' = Op("subscribe", s, stream_disposed[s])

\* A disposer that subscribe returned, called by the program
Unsubscribe(h) ==
  /\ \E T \in {unsubscribe(StreamsOf, handles[h].stream, handles[h].cb)} : Settle(T)
  /\ handles' = [handles EXCEPT ![h].called = TRUE]
  /\ UNCHANGED made
  /\ op' = Op("unsubscribe", h, handles[h].called)

\* stream.map(fn), stream.filter(fn), stream.debounce(seconds) called by the program
Operator(s, kind) ==
  /\ Len(made) < MaxStreams
  /\ \E T \in {Derive(StreamsOf, s, kind, Len(made) + 1)} : Settle(T)
  /\ made' = Append(made, [parent |-> s, kind |-> kind])
  /\ UNCHANGED handles
  /\ op' = Op(kind, s, stream_disposed[s])

\* stream.dispose() called by the program
StreamDispose(s) ==
  /\ \E T \in {EventStream_dispose(StreamsOf, s)} : Settle(T)
  /\ UNCHANGED <<made, handles>>
  /\ op' = Op("stream_dispose", s, stream_disposed[s])

\* The i-th live timer of the debounced stream c fires: child.emit(value)
Fire(c, i) ==
  /\ i \in 1..Len(timers[c])
  /\ burst[c] # <<>>
  /\ \E T0 \in {[StreamsOf EXCEPT !.timers[c] = list_delitem(@, i - 1).items,
                                    !.burst[c] = <<>>]} :
       \E T \in {EventStream_emit(T0, c, timers[c][i])} : Settle(T)
  /\ UNCHANGED <<made, handles>>
  /\ op' = Op("fire", <<c, burst[c][1]>>, stream_disposed[c])

NextStream ==
  \/ \E s \in Made, v \in EventVals : Emit(s, v)
  \/ \E s \in Made, cb \in Callbacks : Subscribe(s, cb)
  \/ \E h \in 1..Len(handles) : Unsubscribe(h)
  \/ \E s \in Made, kind \in Operators : Operator(s, kind)
  \/ \E s \in Made : StreamDispose(s)
  \/ \E c \in Made : \E i \in 1..Len(timers[c]) : Fire(c, i)

SpecStream == InitFeed /\ [][NextStream]_vars

\* ------------------------------------- delivery to callbacks that subscribe
\* stream.subscribe(cb) of a callback that is not subscribed, on the root stream
Listen(kind) ==
  /\ Len(subscribers[1]) < MaxListeners
  /\ \A i \in 1..Len(subscribers[1]) : subscribers[1][i].kind # kind
  /\ \E T \in {[StreamsOf EXCEPT !.subscribers[1] = Append(@, ActiveCallback(kind))]} :
       Settle(T)
  /\ UNCHANGED <<made, handles>>
  /\ op' = Op("subscribe", kind, stream_disposed[1])

NextEmit ==
  \/ \E kind \in Listeners : Listen(kind)
  \/ \E v \in EventVals : Emit(1, v)

SpecEmit == InitFeed /\ [][NextEmit]_vars

\* ------------------------------------------- the self-disposing autorun
InitOnce ==
  /\ \E S \in {ConstructedOnce} : Started(S)
  /\ op = Op("init", None, FALSE)

\* The program writes halt and n and disposes the handle, inside and outside
\* transactions.
NextOnce ==
  \/ \E c \in OnceCells, v \in FeedVals, ord \in Rotations : Set(c, v, ord)
  \/ Dispose("once")
  \/ BeginBatch
  \/ \E ord \in Rotations : EndBatch(ord)

SpecOnce == InitOnce /\ [][NextOnce]_vars

\* ---------------------------------------------------------- Textual program
InitTextual ==
  /\ NoPause
  /\ \E S \in {ConstructedBridge} : Started(S)
  /\ op = Op("init", None, FALSE)

\* o.set(v) called by the thread t; no scheduler is installed
BridgeSet(t, v, ord) ==
  /\ Budget
  /\ \E S0 \in {On(t, ord)} :
       \E S \in {Observable_set(S0, None, "o", v)} : Commit(S, 1)
  /\ op' = Op("bset", <<t, v>>, values["o"] # v)

Idle == UNCHANGED graph /\ UNCHANGED streams

\* "with pause(app):" entered by the main thread
PauseEnter(app) ==
  /\ Len(pauses) < MaxPause
  /\ paused_apps' = paused_apps \cup {app}
  /\ pauses' = Append(pauses, app)
  /\ UNCHANGED is_running
  /\ Idle
  /\ op' = Op("pause", app, app \in paused_apps)

\* the innermost pause block left, by the end of its body or by an exception
PauseExit(how) ==
  /\ pauses # <<>>
  /\ paused_apps' = paused_apps \ {pauses[Len(pauses)]}
  /\ pauses' = SubSeq(pauses, 1, Len(pauses) - 1)
  /\ UNCHANGED is_running
  /\ Idle
  /\ op' = Op("resume", pauses[Len(pauses)], how = "raise")

\* Textual starts or stops the app
SetRunning(app, b) ==
  /\ is_running[app] # b
  /\ is_running' = [is_running EXCEPT ![app] = b]
  /\ UNCHANGED <<paused_apps, pauses>>
  /\ Idle
  /\ op' = Op("running", app, b)

NextTextual ==
  \/ \E t \in {MainThread, "t1"}, v \in FeedVals, ord \in Rotations : BridgeSet(t, v, ord)
  \/ \E r \in BridgeDerivations : Dispose(r)
  \/ (batch_depth = 0 /\ BeginBatch)
  \/ \E ord \in Rotations : EndBatch(ord)
  \/ \E app \in Apps : PauseEnter(app)
  \/ \E how \in {"return", "raise"} : PauseExit(how)
  \/ \E app \in Apps, b \in BOOLEAN : SetRunning(app, b)

SpecTextual == InitTextual /\ [][NextTextual]_vars

\* ------------------------------------------------- the trigger of a Computed
\* computed._run() called on its own, as schedule() and _flush_pending call it.
Trigger(k, ord) ==
  /\ Budget
  /\ \E S0 \in {StateOf(ord, LogFrom)} :
       \E S \in {Computed_run(S0, None, k)} : Commit(S, 1)
  /\ op' = Op("trigger", k, dirty_flags[k])

NextTrigger ==
  \/ Next
  \/ \E k \in Computeds, ord \in Rotations : Trigger(k, ord)

SpecTrigger == Init /\ [][NextTrigger]_vars

\* -------------------------------------------- steps of the failing program
\* The program starts with p = 0, so that the construction raises nothing.
InitFail ==
  /\ \E v \in [FailCells -> FeedVals] :
       /\ v["p"] = 0
       /\ \E S \in {ConstructedFail(v)} : Started(S)
  /\ op = Op("init", None, FALSE)

\* The program writes its cells and reads risky, inside and outside
\* transactions.
NextFail ==
  \/ \E c \in FailCells, v \in FeedVals, ord \in Rotations : Set(c, v, ord)
  \/ \E ord \in Rotations : Get("risky", ord)
  \/ BeginBatch
  \/ \E ord \in Rotations : EndBatch(ord)

SpecFail == InitFail /\ [][NextFail]_vars

\* ------------------------------------------ steps of the re-entrant program
\* The program starts with sw = 0, so that the construction nests no run.
InitNest ==
  /\ \E v \in [NestCells -> FeedVals] :
       /\ v["sw"] = 0
       /\ \E S \in {ConstructedNest(v)} : Started(S)
  /\ op = Op("init", None, FALSE)

\* The program writes its cells, inside and outside transactions.
NextNest ==
  \/ \E c \in NestCells, v \in FeedVals, ord \in Rotations : Set(c, v, ord)
  \/ BeginBatch
  \/ \E ord \in Rotations : EndBatch(ord)

SpecNest == InitNest /\ [][NextNest]_vars

\* ------------------------------------------------------------- vocabulary
\* The cells that only the program writes (out is also written by rpar's effect).
ProgramCells == Cells \ {"out"}

Quiet == batch_depth = 0

\* The entries of log that are invocations of a reaction's function or effect.
ReactionEntries(lg) == {i \in 1..Len(lg) : lg[i].d \in Reactions}

\* What a node's value is when the cells hold v.
Ideal(n, v) ==
  CASE n \in Cells -> v[n]
    [] n = "dbl" -> v["a"] * 2
    [] n = "quad" -> v["a"] * 4
    [] n = "sel" -> IF v["flag"] # 0 THEN v["a"] ELSE v["b"]

CellStates == {v \in [Cells -> Vals] : \A c \in Cells : v[c] \in CellVals(c)}

BatchClosed == op.type = "end" /\ Quiet

\* ------------------------------------------------------------------ C1
\* A run that saw the new value of one program cell written in the batch
\* together with the old value of another one written in the batch.
Mixed(e) ==
  \E p, q \in ProgramCells :
    /\ pre[p] # values[p] /\ pre[q] # values[q]
    /\ e.obs[p] = values[p] /\ e.obs[q] = pre[q]

\* C1: glitch-freedom for direct reads. No reaction runs between the writes of an
\* open batch, and no run made by the flush of a batch saw the new value of one
\* cell written in the batch together with the pre-batch value of another.
C1_GlitchFreeCells ==
  /\ batch_depth > 0 => ReactionEntries(log) = {}
  /\ BatchClosed => \A i \in ReactionEntries(log) : ~Mixed(log[i])

\* A batch changed two cells and a reaction that reads both ran on the new pair.
C1_Witness ==
  /\ BatchClosed
  /\ \E i \in ReactionEntries(log) : \E p, q \in ProgramCells :
       /\ p # q /\ pre[p] # values[p] /\ pre[q] # values[q]
       /\ log[i].obs[p] = values[p] /\ log[i].obs[q] = values[q]

\* ------------------------------------------------------------------ C2
\* C2: glitch-freedom through Computeds. In every run of a reaction, the values
\* it read are all derived from one and the same cell state.
C2_GlitchFreeComputeds ==
  \A i \in ReactionEntries(log) : log[i].kind = "run" =>
    \E s \in CellStates : \A n \in Nodes : log[i].obs[n] \in {NoRead, Ideal(n, s)}

\* ------------------------------------------------------------------ C3
\* C3: batch deduplication. A reaction triggered several times because of one
\* batch has its function run once as a result of that batch.
C3_RunsOncePerBatch ==
  BatchClosed => \A r \in Reactions : Cardinality(RunsOf(log, 0, r)) <= 1

\* ------------------------------------------------------------------ C4
C4_State ==
  /\ batch_depth > 0 => ReactionEntries(log) = {}
  /\ BatchClosed =>
       \A i \in ReactionEntries(log) : \A c \in ProgramCells :
         log[i].obs[c] \in {NoRead, values[c]}

C4_InnerExit ==
  (batch_depth > 1 /\ batch_depth' = batch_depth - 1) =>
    UNCHANGED <<values, observers, dependencies, dirty_flags, cached_values,
                disposed, last_value, initialized, pending, log, lastObs>>

\* C4: nested batches do not flush early. While the depth is above 0 no reaction
\* function has run since the outermost scope was entered, leaving an inner scope
\* runs nothing and keeps the pending set, and the runs made when the outermost
\* scope exits see only the last value written to each cell.
C4_NoEarlyFlush == []C4_State /\ [][C4_InnerExit]_vars

\* An inner scope was just left with derivations still pending.
C4_Witness == op.type = "end" /\ batch_depth = 1 /\ pending # {}

\* ------------------------------------------------------------------ C5
\* C5: settling. When the outermost end_batch has returned, the pending set is
\* empty and what the latest run of every live reaction read is what the nodes
\* it read hold now.
C5_Settled ==
  BatchClosed =>
    /\ pending = {}
    /\ \A r \in Reactions : ~disposed[r] =>
         \A n \in Nodes : lastObs[r][n] \in {NoRead, Ideal(n, values)}

\* A flush in which rpar's effect wrote out, after which rsel ran on the new out.
C5_Witness ==
  /\ BatchClosed
  /\ pre["out"] # values["out"]
  /\ \E i, j \in 1..Len(log) :
       /\ i < j
       /\ log[i].d = "rpar" /\ log[i].kind = "effect"
       /\ log[j].d = "rsel" /\ log[j].obs["out"] = values["out"]

\* ------------------------------------------------------------------ C6
\* C6: laziness. A Computed that was never read has never run its function;
\* a get() runs the function once when the Computed is dirty and not at all
\* when it is clean; quad, which only the program reads, runs in no other way.
C6_Lazy ==
  /\ \A k \in Computeds :
       cached_values[k] = UNSET => (dirty_flags[k] /\ RunsOf(log, 0, k) = {})
  /\ op.type = "get" =>
       /\ Cardinality(RunsOf(log, mark, op.what)) = (IF op.was THEN 1 ELSE 0)
       /\ ~dirty_flags[op.what]
  /\ RunsOf(log, mark, "quad") # {} => (op.type = "get" /\ op.what = "quad" /\ op.was)

\* A get() on a clean Computed that has a cached value.
C6_Witness ==
  /\ op.type = "get" /\ ~op.was
  /\ cached_values[op.what] # UNSET
  /\ RunsOf(log, mark, op.what) = {}

\* ------------------------------------------------------------------ C7
\* C7: invalidation of lazy values. The value a get() returns is the function
\* applied to the current cell values, wherever the get() is issued.
C7_GetIsFresh == op.type = "get" => cached_values[op.what] = Ideal(op.what, values)

\* ------------------------------------------------------------------ C8
\* C8: no-op write suppression. set(v) with v equal to the stored value changes
\* no table and invokes no function.
C8_NoOpWrite ==
  [][(op'.type = "set" /\ ~op'.was) =>
       /\ UNCHANGED <<values, observers, dependencies, dirty_flags, cached_values,
                      disposed, last_value, initialized, batch_depth, pending,
                      lastObs>>
       /\ Len(log') = mark']_vars

\* An equal value was written, outside a batch, to a cell that has observers.
C8_Witness == op.type = "set" /\ ~op.was /\ Quiet /\ observers[op.what] # {}

\* ------------------------------------------------------------------ C9
\* The dependencies after an evaluation that read flag, then a or the other cell.
DepsAfter(d, other) ==
  IF lastObs[d]["flag"] # 0 THEN {"flag", "a"} ELSE {"flag", other}

C9_Deps ==
  /\ dependencies["rsel"] = DepsAfter("rsel", "out")
  /\ dependencies["sel"] = DepsAfter("sel", "b")

C9_WriteToA ==
  (op'.type = "set" /\ op'.what = "a") =>
    /\ (lastObs["rsel"]["flag"] = 0 /\ values'["out"] = values["out"]) =>
         /\ RunsOf(log', mark', "rsel") = {}
         /\ "rsel" \in pending' => "rsel" \in pending
    /\ lastObs["sel"]["flag"] = 0 =>
         /\ RunsOf(log', mark', "sel") = {}
         /\ dirty_flags'["sel"] = dirty_flags["sel"]
         /\ "sel" \in pending' => "sel" \in pending

\* C9: dynamic dependency switching. After an evaluation with flag true the
\* derivation depends on exactly {flag, a}, after one with flag false on exactly
\* {flag, other}; once evaluated with flag false, a write to a alone neither
\* runs nor schedules the reaction, and neither recomputes, marks dirty nor
\* schedules the Computed.
C9_DynamicDeps == []C9_Deps /\ [][C9_WriteToA]_vars

\* a changed outside a batch while flag was false; rsum re-ran, rsel did not.
C9_Witness ==
  /\ op.type = "set" /\ op.what = "a" /\ op.was /\ Quiet
  /\ values["flag"] = 0 /\ pre["out"] = values["out"]
  /\ RunsOf(log, 0, "rsum") # {}
  /\ RunsOf(log, 0, "rsel") = {}

\* ------------------------------------------------------------------ C10
\* The entries of r in seq follow the gate: starting from the previous result
\* last, a run with an equal result is followed by no effect, a run with a
\* different result by exactly one effect carrying it (want: the effect owed).
RECURSIVE Gated(_, _, _, _)
Gated(seq, r, last, want) ==
  IF seq = <<>> THEN want = NoRead
  ELSE LET e == Head(seq)
       IN IF e.d # r THEN Gated(Tail(seq), r, last, want)
          ELSE IF e.kind = "run"
          THEN /\ want = NoRead
               /\ Gated(Tail(seq), r, e.val, IF e.val # last THEN e.val ELSE NoRead)
          ELSE /\ want = e.val
               /\ Gated(Tail(seq), r, last, NoRead)

C10_Step ==
  /\ Gated(SubSeq(log', mark' + 1, Len(log')), "rpar", last_value["rpar"], NoRead)
  /\ (op'.type = "set" /\ op'.what = "a" /\ op'.was /\ batch_depth = 0) =>
       Cardinality(RunsOf(log', 0, "rpar")) = 1

\* C10: value-gated suppression. Every trigger of reaction(data_fn, effect_fn)
\* re-evaluates data_fn, and the effect is invoked once with the new result when
\* it differs from the previous evaluation's and not at all when it is equal.
C10_ValueGated == [][C10_Step]_vars

\* a changed, rpar re-evaluated its data function, the parity was the same and
\* the effect was not invoked.
C10_Witness ==
  /\ op.type = "set" /\ op.what = "a" /\ op.was /\ Quiet
  /\ RunsOf(log, 0, "rpar") # {}
  /\ EffectsOf(log, 0, "rpar") = {}

\* ------------------------------------------------------------------ C11
\* The entries that invoke a function or an effect of r.
Invocations(lg, from, r) ==
  {i \in (from + 1)..Len(lg) : lg[i].d = r /\ lg[i].kind \in {"run", "effect"}}

\* Within one operation or open batch: nothing of r is invoked after r.dispose().
C11_AfterDispose ==
  \A i \in 1..Len(log) : log[i].kind = "dispose" =>
    \A j \in Invocations(log, 0, log[i].d) : j < i

\* A reaction that is disposed when an operation starts is not invoked by it.
C11_Step ==
  \A r \in DOMAIN disposed : disposed[r] => Invocations(log', mark', r) = {}

\* C11: disposal silence. After dispose() neither the function nor the effect of
\* a Reaction or data-reaction is invoked again, by any later write or flush,
\* also when it was pending in an open batch when it was disposed and when it
\* is disposed by another derivation in the middle of a flush.
C11_DisposalSilence == []C11_AfterDispose /\ [][C11_Step]_vars

\* The flush of a batch that changed count: the reaper ran first and disposed
\* g1, which was in the snapshot of the flush and was then skipped; w1 had been
\* disposed by the program while it was pending.
C11_Witness ==
  /\ BatchClosed
  /\ pre["count"] # values["count"]
  /\ \E i \in 1..Len(log) :
       log[i].d = "g1" /\ log[i].kind = "dispose" /\ log[i].depth = 0 /\ log[i].val = 1
  /\ \E i \in 1..Len(log) :
       log[i].d = "w1" /\ log[i].kind = "dispose" /\ log[i].depth > 0 /\ log[i].val = 2
  /\ Invocations(log, 0, "g1") = {}

\* ------------------------------------------------------------------ C12
C12_State ==
  op.type = "cdispose" =>
    /\ dependencies[op.what] = {} /\ observers[op.what] = {}
    /\ dirty_flags[op.what] /\ cached_values[op.what] = UNSET

C12_GetStep ==
  (op.type = "cdispose" /\ op'.type = "get" /\ op'.what = op.what) =>
    /\ Cardinality(RunsOf(log', mark', op.what)) = 1
    /\ cached_values'[op.what] = Ideal(op.what, values')

\* C12: a lazy derivation after disposal. Computed.dispose() leaves the Computed
\* with no dependencies, no observers, dirty and without a cached value, and
\* the next get() invokes the function once and returns its value for the
\* current cell values.
C12_GetAfterDispose == []C12_State /\ [][C12_GetStep]_vars

\* ------------------------------------------------------------------ C13
\* The nodes that entry i of the log read.
ReadBy(lg, i) == {n \in DOMAIN lg[i].obs : lg[i].obs[n] # NoRead}

\* r was constructed in the part of lg after `from`: its function ran once and
\* r is subscribed to exactly what that run read.
C13_RanOnce(lg, from, r, obsv, deps) ==
  /\ Cardinality(RunsOf(lg, from, r)) = 1
  /\ \A i \in RunsOf(lg, from, r) :
       /\ ReadBy(lg, i) # {}
       /\ deps[r] = ReadBy(lg, i)
       /\ \A n \in ReadBy(lg, i) : r \in obsv[n]

\* The effect of the reaction r was invoked in the part of lg after `from`: not
\* at all without fire_immediately, once with the initial result with it.
C13_Effects(lg, from, r, fire, last) ==
  /\ Cardinality(EffectsOf(lg, from, r)) = (IF fire THEN 1 ELSE 0)
  /\ \A i \in RunsOf(lg, from, r) :
       /\ last[r] = lg[i].val
       /\ \A j \in EffectsOf(lg, from, r) : j > i /\ lg[j].val = lg[i].val

\* After the construction of the Store program.
C13_Constructed ==
  (op.type = "init" /\ store.setups = 1) =>
    /\ \A r \in {"reaper", "check", Watchers[1], Parities[1]} :
         C13_RanOnce(log, 0, r, observers, dependencies)
    /\ C13_Effects(log, 0, Parities[1], op.was, last_value)
    /\ initialized[Parities[1]]

\* A reconcile registers the autorun and the reaction of its setup_fn.
C13_Reconcile ==
  (op'.type = "reconcile" /\ store'.setups = store.setups + 1) =>
    /\ C13_RanOnce(log', mark', Watchers[op'.what[1]], observers', dependencies')
    /\ C13_RanOnce(log', mark', Parities[op'.what[1]], observers', dependencies')
    /\ C13_Effects(log', mark', Parities[op'.what[1]], op'.was, last_value')
    /\ initialized'[Parities[op'.what[1]]]

\* C13: construction protocol of eager derivations. autorun(fn) runs fn exactly
\* once, tracked, before returning; reaction(data_fn, effect_fn) evaluates
\* data_fn exactly once, tracked, and invokes effect_fn not at all when
\* fire_immediately is false and exactly once, with the initial result, when
\* it is true; the derivation is subscribed to every cell of that evaluation.
C13_Construction == []C13_Constructed /\ [][C13_Reconcile]_vars

\* A reconcile with fire_immediately inside an open batch, when count is odd:
\* the effect of the new reaction was invoked with 1.
C13_Witness ==
  /\ op.type = "reconcile" /\ op.was /\ batch_depth > 0
  /\ values["count"] = 1
  /\ \E j \in EffectsOf(log, mark, Parities[op.what[1]]) : log[j].val = 1
  /\ Cardinality(RunsOf(log, mark, Watchers[op.what[1]])) = 1

\* ------------------------------------------------------------------ C14
\* The function of check raised in the part of lg after `from`.
CheckRaised(lg, from) ==
  \E i \in RunsOf(lg, from, "check") : lg[i].obs["count"] = MaxVal

\* What the body of the call op gives: WorkError, or the value v from @action.
WorkRaises(o) == IF o.was THEN "WorkError" ELSE None
WorkReturns(o) == IF o.was \/ o.type = "transaction" THEN UNSET ELSE o.what

C14_PassStep ==
  op'.type \in {"action", "transaction"} =>
    raised' = WorkRaises(op') /\ returned' = WorkReturns(op')

\* C14 as stated: the value returned or the exception raised by the work wrapped
\* in @action or `with transaction()` is exactly what the caller receives, also
\* when pending derivations are flushed on exit.
C14_PassThrough == [][C14_PassStep]_vars

C14_FinallyStep ==
  op'.type \in {"action", "transaction"} =>
    IF CheckRaised(log', mark')
    THEN raised' = "ValueError" /\ returned' = UNSET
    ELSE raised' = WorkRaises(op') /\ returned' = WorkReturns(op')

\* C14 amended: the caller receives what the wrapped work returned or raised,
\* unless a derivation raises while the pending derivations are flushed on
\* exit: then the caller receives that failure, whatever the work gave.
C14_PassThroughUnlessFlushRaises == [][C14_FinallyStep]_vars

\* An @action call that returned normally at the top level and whose flush
\* ran check, which raised: the caller received ValueError and no value.
C14_Witness ==
  /\ op.type = "action" /\ ~op.was /\ batch_depth = 0
  /\ CheckRaised(log, mark)
  /\ raised = "ValueError" /\ returned = UNSET

\* ------------------------------------------------------------------ C15
\* The end_batch() that closes the batch, whose flush raised.
C15_Step ==
  (op'.type = "end" /\ batch_depth = 1 /\ raised' # None) =>
    /\ log'[Len(log')].d = "check" /\ log'[Len(log')].kind = "run"
    /\ \A d \in pending :
         (~disposed'[d] /\ RunsOf(log', mark', d) = {}) => d \in pending'

\* C15: failure during a flush. When the function of a pending derivation
\* raises while a batch is flushed, the rest of that flush pass is aborted and
\* the pending derivations that have not yet been run are left in the pending
\* set.
C15_FlushFailure == [][C15_Step]_vars

\* ------------------------------------------------------------------ C16
\* What a step of the operation `type` does to the graph: nothing.
Untouched ==
  /\ values' = values /\ observers' = observers /\ dependencies' = dependencies
  /\ pending' = pending /\ dirty_flags' = dirty_flags /\ cached_values' = cached_values
  /\ Len(log') = mark'

\* The observers of c were triggered: run at once, or pending in the open batch.
Triggered(c) ==
  \A d \in observers[c] :
    IF batch_depth = 0 THEN RunsOf(log', mark', d) # {} ELSE d \in pending'

C16_Step ==
  op'.type = "tset" =>
    IF scheduler # None /\ op'.what[1] # scheduler
    THEN /\ marshal' = Append(marshal, [cell |-> op'.what[2], val |-> op'.what[3], src |-> op'.what[1]])
         /\ Untouched
    ELSE /\ marshal' = marshal
         /\ values'[op'.what[2]] = op'.what[3]
         /\ values[op'.what[2]] # op'.what[3] => Triggered(op'.what[2])

\* C16: marshal dispatch rule. Observable.set(v) hands exactly one closure to
\* the marshal, changes no stored value and runs no observer on the calling
\* thread if and only if a marshal is configured and the calling thread is not
\* the one that called set_scheduler; in every other case the write is applied
\* synchronously before set() returns.
C16_MarshalDispatch == [][C16_Step]_vars

\* A worker's set() of a new value with the scheduler configured: the closure
\* is the newest of the queue and the cell still holds the old value.
C16_Witness ==
  /\ op.type = "tset" /\ op.what[1] \in Workers /\ scheduler = MainThread
  /\ marshal # <<>> /\ marshal[Len(marshal)].val = op.what[3]
  /\ marshal[Len(marshal)].cell = op.what[2]
  /\ values[op.what[2]] # op.what[3]

\* ------------------------------------------------------------------ C17
\* The closures in the queue that thread w[1] submitted for cell w[2].
Queued(w) == SelectSeq(marshal, LAMBDA cl : cl.src = w[1] /\ cl.cell = w[2])

\* The newest queued write of a thread to a cell is its last submitted one.
C17_LastIsNewest ==
  \A w \in DOMAIN lastSub :
    Queued(w) # <<>> => Queued(w)[Len(Queued(w))].val = lastSub[w]

\* A cell that one thread alone writes holds that thread's last submitted
\* value once none of its closures is left in the queue.
C17_Settled ==
  \A w \in DOMAIN lastSub :
    (/\ \A u \in Writers : u[2] = w[2] => u = w
     /\ Queued(w) = <<>>
     /\ lastSub[w] # UNSET) => values[w[2]] = lastSub[w]

\* The queue changes only at its ends: a marshaled set() appends its closure,
\* the owner thread removes the oldest closure and applies it.
C17_Fifo ==
  \/ marshal' = marshal
  \/ /\ op'.type = "tset"
     /\ marshal' = Append(marshal, [cell |-> op'.what[2], val |-> op'.what[3],
                                     src |-> op'.what[1]])
  \/ /\ op'.type = "run" /\ marshal # <<>>
     /\ marshal' = Tail(marshal)
     /\ values'[Head(marshal).cell] = Head(marshal).val
     /\ \A i \in (mark' + 1)..Len(log') : log'[i].thread = scheduler

\* C17: marshaled write ordering. With the closures run first-in-first-out on
\* the owner thread, the writes submitted by one source thread are applied in
\* their submission order, so that once all its closures have run and absent
\* other writers each cell holds the value of that thread's last submitted
\* write to it.
C17_SubmissionOrder == [](C17_LastIsNewest /\ C17_Settled) /\ [][C17_Fifo]_vars

\* t1 submitted y := 1 and then y := 0 while the scheduler was configured, the
\* owner has run both closures, the second just now, and y holds 0.
C17_Witness ==
  /\ op.type = "run" /\ op.what = <<"t1", "y", 0>> /\ op.was
  /\ marshal = <<>> /\ lastSub[<<"t1", "y">>] = 0 /\ values["y"] = 0
  /\ \E i \in 1..Len(log) : log[i].d = "rx" /\ log[i].thread = MainThread

\* ------------------------------------------------------------------ C18
\* A mutating operation called by a worker thread once the scheduler is set.
C18_Step ==
  (/\ scheduler # None
   /\ op'.type \in {"tset", "append", "pop"}
   /\ op'.what[1] # scheduler) =>
    /\ values' = values /\ observers' = observers /\ dependencies' = dependencies
    /\ pending' = pending
    /\ \A i \in (mark' + 1)..Len(log') : log'[i].thread = scheduler

\* C18: owner-thread confinement. Once a marshal is configured, no mutating
\* operation invoked on a non-owner thread, Observable.set as well as the
\* mutators of ObservableList and ObservableDict, changes a stored value, an
\* observers or dependencies set, the pending set, or runs a derivation on the
\* calling thread.
C18_Confinement == [][C18_Step]_vars

\* ------------------------------------------------------------------ C19
ListOps == {"append", "extend", "insert", "pop", "remove", "clear", "setitem", "delitem"}
DictOps == {"dsetitem", "ddelitem", "dpop", "dupdate", "dclear", "dsetdefault"}

\* The collection that the operation of this type mutates.
Target(type) == IF type \in ListOps THEN "lst" ELSE "dct"

\* The reactions that read the collection n in their last evaluation.
Readers(n) == observers[n] \cap FeedAutoruns

\* A mutator that completes triggers the readers: run at once outside a batch,
\* pending inside; one that raises, or a setdefault of a present key, changes
\* and triggers nothing.  op.was: the mutator changes the contents and notifies.
C19_Mutator ==
  op'.type \in ListOps \cup DictOps =>
    IF op'.was
    THEN /\ raised' = None
         /\ \A d \in Readers(Target(op'.type)) :
              IF batch_depth = 0 THEN RunsOf(log', mark', d) # {} ELSE d \in pending'
    ELSE /\ values' = values /\ pending' = pending /\ Len(log') = mark'
         /\ op'.type # "dsetdefault" => raised' # None

\* The flush of the batch runs each pending reader exactly once.
C19_Flush ==
  (op'.type = "end" /\ batch_depth = 1) =>
    \A d \in pending \cap FeedAutoruns : Cardinality(RunsOf(log', mark', d)) = 1

\* C19: collection notification. Every mutating operation of ObservableList
\* and ObservableDict that completes triggers every derivation that read the
\* collection in its last evaluation, running it at once outside a batch and
\* exactly once at the flush inside a batch; a mutating operation that raises
\* leaves the contents unchanged and triggers nothing.
C19_CollectionNotification == [][C19_Mutator /\ C19_Flush]_vars

\* ------------------------------------------------------------------ C20
\* The schema of a reconcile, from the number of its keys.
SchemaOf(o) == IF o.what[2] = Len(Schema1) THEN Schema1 ELSE Schema2

\* The dispose() calls on r in the part of lg after `from`.
DisposalsOf(lg, from, r) ==
  {i \in (from + 1)..Len(lg) : lg[i].d = r /\ lg[i].kind = "dispose"}

C20_Reconcile ==
  (op'.type = "reconcile" /\ store'.setups = store.setups + 1) =>
    /\ \A k \in store.keys : values'[k] = values[k]
    /\ store'.keys = store.keys \cup Range(SchemaOf(op'))
    /\ \A k \in store'.keys \ store.keys : values'[k] = Default
    /\ \A r \in Range(store.disposers) :
         /\ disposed'[r]
         /\ observers' = [k \in DOMAIN observers' |-> observers'[k] \ {r}]
         /\ DisposalsOf(log', mark', r) # {}
         /\ \A i \in DisposalsOf(log', mark', r) :
              \A j \in RunsOf(log', mark', Watchers[store'.setups]) : i < j
    /\ store'.disposers = <<Watchers[store'.setups], Parities[store'.setups]>>

\* The reactions of the reconciles before the latest are not invoked.
C20_Silent ==
  \A i \in 1..(store.setups - 1) :
    Invocations(log', mark', Watchers[i]) \cup Invocations(log', mark', Parities[i]) = {}

C20_Dispose ==
  op'.type = "store_dispose" =>
    /\ \A r \in Range(store.disposers) : disposed'[r]
    /\ store'.disposers = <<>>

\* C20: Store.reconcile(schema, setup_fn). The value of every key that exists
\* is left untouched, every missing key of the schema is added with its
\* default, every reaction registered by the previous reconcile is disposed
\* before setup_fn runs and never fires for any later write, and the reactions
\* returned by setup_fn become the store's current reactions, which
\* Store.dispose() disposes.
C20_StoreReconcile == [][C20_Reconcile /\ C20_Silent /\ C20_Dispose]_vars

\* A second reconcile that added the key extra, inside an open batch in which
\* count was written: count kept its value, the reactions of the first
\* reconcile were live and are disposed, those of the second are current.
C20_Witness ==
  /\ op.type = "reconcile" /\ op.what = <<2, Len(Schema2)>> /\ batch_depth > 0
  /\ values["count"] = 1 /\ pre["count"] = 0
  /\ \E i \in DisposalsOf(log, mark, Watchers[1]) : log[i].val = 2
  /\ disposed[Watchers[1]] /\ disposed[Parities[1]]
  /\ store.disposers = <<Watchers[2], Parities[2]>>
  /\ "extra" \in store.keys

\* ------------------------------------------------------------------ C21
C21_Step ==
  (op'.type = "hot_reconcile" /\ op'.what[2] # "never") =>
    /\ raised' = None
    /\ \A k \in store.keys : values'[k] = values[k]
    /\ store'.keys = store.keys \cup Range(IF op'.what[1] = Len(Schema1) THEN Schema1
                                                                         ELSE Schema2)
    /\ \A k \in store'.keys \ store.keys : values'[k] = Default
    /\ \A r \in Range(store.disposers) :
         /\ disposed'[r] /\ dependencies'[r] = {}
         /\ \A k \in DOMAIN observers' : r \notin observers'[k]
    /\ store'.disposers = <<>>

\* C21: HotReloadStore.reconcile with a setup_fn that raises. No exception
\* reaches the caller, the values of the existing keys are intact, the new keys
\* of the schema are present with their defaults, the previously registered
\* reactions are disposed, and the list of reaction disposers is empty.
C21_SafeReconcile == [][C21_Step]_vars

\* A reconcile that added the key extra while count was 1 and whose setup_fn
\* raised after it had registered its autorun: the reactions of the reconcile
\* before were live and are disposed, and no disposer is registered.
C21_Witness ==
  /\ op.type = "hot_reconcile" /\ op.what = <<Len(Schema2), "between">>
  /\ values["count"] = 1 /\ "extra" \in store.keys
  /\ \E i \in DisposalsOf(log, mark, Watchers[1]) : log[i].val >= 1
  /\ disposed[Watchers[1]] /\ disposed[Parities[1]]
  /\ RunsOf(log, mark, Watchers[store.setups]) # {}
  /\ store.disposers = <<>> /\ raised = None

\* ------------------------------------------------------ streams vocabulary
RECURSIVE IsAncestor(_, _)
\* The stream d was derived from the stream a, through one operator or more.
IsAncestor(a, d) ==
  /\ made[d].parent # 0
  /\ (made[d].parent = a \/ IsAncestor(a, made[d].parent))

DerivedFrom(a) == {d \in Made : IsAncestor(a, d)}

\* The callbacks of the program among the subscribers of s, in order.
UserSubs(subs, s) == SelectSeq(subs[s], LAMBDA cb : cb.kind = "user")

\* The invocations of callbacks subscribed to s, among those of a step.
DeliveredTo(dl, s) == SelectSeq(dl, LAMBDA e : e[1] = s)

\* The occurrences of the callback cb in the subscribers of s.
Subscriptions(subs, s, cb) == {i \in 1..Len(subs[s]) : subs[s][i] = UserCallback(cb)}

\* ------------------------------------------------------------------ C22
\* C22: teardown propagation. After s.dispose() returns, s and every stream
\* derived from s through map, filter or debounce, transitively and for any
\* number of children per stream, has _disposed = true.
C22_TeardownPropagation ==
  [][op'.type = "stream_dispose" =>
       \A d \in {op'.what} \cup DerivedFrom(op'.what) : stream_disposed'[d]]_vars

\* ------------------------------------------------------------------ C23
C23_Step == \A i \in 1..Len(delivered') : ~stream_disposed[delivered'[i][1]]

\* C23: disposed silence. Once a stream is disposed, no later emit() on it, no
\* emit() on one of its ancestors and no debounce timer that fires afterwards
\* invokes a subscriber of that stream, subscribed before or after the disposal.
C23_DisposedSilence == [][C23_Step]_vars

\* The timer of a debounced stream fired after the stream was disposed and
\* after a callback was subscribed to the disposed stream: nothing was invoked.
C23_Witness ==
  /\ op.type = "fire" /\ op.was
  /\ UserSubs(subscribers, op.what[1]) # <<>>
  /\ delivered = <<>>

\* ------------------------------------------------------------------ C24
\* dispose() of the stream c leaves every stream that is not c nor derived from
\* c as it was, but for c in the list of children of its parent.
C24_Frame ==
  op'.type = "stream_dispose" =>
    \A p \in Made \ ({op'.what} \cup DerivedFrom(op'.what)) :
      /\ stream_disposed'[p] = stream_disposed[p]
      /\ subscribers'[p] = subscribers[p]
      /\ parent_disposer'[p] = parent_disposer[p]
      /\ timers'[p] = timers[p]
      /\ IF p = made[op'.what].parent
         THEN /\ op'.what \notin Range(children'[p])
              /\ children'[p] = SelectSeq(children[p], LAMBDA c : c # op'.what)
         ELSE children'[p] = children[p]

\* emit(v) on a stream that is not disposed invokes each of its callbacks with v.
C24_Receives ==
  (op'.type = "emit" /\ ~op'.was) =>
    DeliveredTo(delivered', op'.what[1]) =
      [i \in 1..Len(UserSubs(subscribers, op'.what[1])) |->
         <<op'.what[1], UserSubs(subscribers, op'.what[1])[i].cb, op'.what[2]>>]

\* C24: disposing a child stream does not affect its parent. The parent is not
\* disposed by it, the subscribers of the parent still receive every value, the
\* other children are untouched, and the child is no longer in the list of
\* children of the parent.
C24_ChildDispose == [][C24_Frame /\ C24_Receives]_vars

\* A value emitted on a parent of two children, one of them disposed and out of
\* the list of children: the callback of the parent and the callback of the
\* other child were invoked.
C24_Witness ==
  /\ op.type = "emit" /\ op.what[1] = 1 /\ ~stream_disposed[1]
  /\ Len(made) = MaxStreams /\ \A d \in Made \ {1} : made[d].parent = 1
  /\ \E c \in Made : stream_disposed[c] /\ c \notin Range(children[1])
  /\ \E c \in Made \ {1} : ~stream_disposed[c] /\ DeliveredTo(delivered, c) # <<>>
  /\ DeliveredTo(delivered, 1) # <<>>

\* ------------------------------------------------------------------ C25
C25_Step ==
  op'.type = "unsubscribe" =>
    IF op'.was THEN subscribers' = subscribers
    ELSE \A s \in Made : \A cb \in Callbacks :
           Cardinality(Subscriptions(subscribers', s, cb)) =
             IF s = handles[op'.what].stream /\ cb = handles[op'.what].cb
                  /\ Subscriptions(subscribers, s, cb) # {}
             THEN Cardinality(Subscriptions(subscribers, s, cb)) - 1
             ELSE Cardinality(Subscriptions(subscribers, s, cb))

\* C25: unsubscribe is exact and idempotent. The disposer that subscribe(cb)
\* returned removes that one subscription; called a second or further time it
\* changes nothing, and removes no other subscription, also when the same
\* callback was subscribed more than once.
C25_Unsubscribe == [][C25_Step]_vars

\* ------------------------------------------------------------------ C26
C26_Step ==
  /\ \A c \in 1..Len(made') : made'[c].kind = "debounce" =>
        /\ Len(timers'[c]) <= 1
        /\ timers'[c] = <<>> <=> burst'[c] = <<>>
        /\ timers'[c] # <<>> => timers'[c][1] = burst'[c][2]
  /\ op'.type = "fire" =>
        /\ timers'[op'.what[1]] = <<>>
        /\ ~op'.was =>
              DeliveredTo(delivered', op'.what[1]) =
                [i \in 1..Len(UserSubs(subscribers, op'.what[1])) |->
                   <<op'.what[1], UserSubs(subscribers, op'.what[1])[i].cb,
                     burst[op'.what[1]][2]>>]

\* C26: debounce coalescing. Every source event cancels the timer that the
\* event before it started, so a debounced stream has one live timer exactly
\* when a source event came after its latest emission, and that timer carries
\* the value of the latest event: a burst gives one emission, of its last value,
\* and an event that comes after the emission gives an emission of its own.
C26_Coalescing == [][C26_Step]_vars

\* The timer fired after a burst of two events or more, and the callback of the
\* debounced stream was invoked once.
C26_Witness ==
  /\ op.type = "fire" /\ ~op.was /\ op.what[2] = 2
  /\ Len(DeliveredTo(delivered, op.what[1])) = 1
  /\ timers[op.what[1]] = <<>>

\* ------------------------------------------------------------------ C27
\* C27: pause-set invariant. An app is in _paused_apps if and only if at least
\* one "with pause(app)" block for it is active (so is_safe(app) is false
\* throughout every pause block, the outer one of two nested pauses included,
\* and true again after the last block exits), and pausing one app never
\* changes is_safe of another.
C27_PauseSet ==
  [](\A app \in Apps : app \in paused_apps <=> app \in Range(pauses))
    /\ [][op'.type \in {"pause", "resume"} =>
            \A app \in Apps \ {op'.what} : is_safe(app)' = is_safe(app)]_vars

\* ------------------------------------------------------------------ C28
CallsOf(lg, from) ==
  {i \in (from + 1)..Len(lg) : lg[i].kind \in {"call", "call_from_thread"}}

\* The steps of pause and of the app leave the history of the step before.
C28_Step ==
  op'.type \notin {"pause", "resume", "running"} =>
  \A i \in CallsOf(log', mark') :
    /\ is_running[AppOf(log'[i].d)]
    /\ AppOf(log'[i].d) \notin Range(pauses)
    /\ log'[i].kind = "call_from_thread" <=> log'[i].thread # MainThread
    /\ ~disposed[log'[i].d]

\* C28: gating of guarded Textual derivations. The user function of
\* textual.autorun and the effect of textual.reaction are invoked only when, as
\* the derivation is triggered, the app is running and in no pause block; on a
\* thread other than the one that made the derivation the call goes through
\* app.call_from_thread; a disposed derivation invokes nothing.
C28_Gating == [][C28_Step]_vars

\* ------------------------------------------------------------------ C29
\* C29: edge symmetry (I1). In every state between operations, after any
\* sequence of get, set, dispose and batch operations, a node is in the
\* dependencies of a derivation if and only if the derivation is in the
\* observers of the node.
C29_EdgeSymmetry ==
  \A d \in DOMAIN dependencies : \A n \in DOMAIN observers :
    n \in dependencies[d] <=> d \in observers[n]

\* ------------------------------------------------------------------ C30
\* C30: a disposed derivation holds no edges (I4). Once dispose() of a reaction
\* has returned, its dependencies are empty and it is in no observers set,
\* whatever follows, also when it disposed itself in the middle of its own
\* evaluation and went on to read cells.
C30_NoEdges ==
  \A r \in DOMAIN disposed :
    disposed[r] => /\ dependencies[r] = {}
                   /\ \A n \in DOMAIN observers : r \notin observers[n]

\* ------------------------------------------------------------------ C31
\* The nodes that the evaluation logged at position i of lg read.
ReadsOf(lg, i) == {n \in DOMAIN lg[i].obs : lg[i].obs[n] # NoRead}

\* C31: dependency freshness (I2). Whenever an evaluation of a derivation
\* completes, its dependencies are exactly the cells and Computeds that this
\* evaluation read, with no edge left over and no read missing, also when the
\* derivation was re-evaluated re-entrantly while the evaluation was on the
\* call stack. The log holds the evaluations in the order of their completion.
C31_Step ==
  \A d \in DOMAIN dependencies' :
    RunsOf(log', mark', d) # {} =>
      dependencies'[d] = ReadsOf(log', Max(RunsOf(log', mark', d)))

C31_Freshness == [][C31_Step]_vars

\* ------------------------------------------------------------------ C32
\* No function was invoked by the step.
Silent == Len(log') = mark'

\* The tables of the graph other than the dirty flags, the pending set and the
\* caches are as they were.
C32_Frame ==
  /\ values' = values /\ observers' = observers /\ dependencies' = dependencies
  /\ disposed' = disposed /\ batch_depth' = batch_depth
  /\ last_value' = last_value /\ initialized' = initialized

\* The function of k runs in this step only inside an evaluation that reads k
\* (the reader's evaluation completes after it).
ReadBack(k) ==
  \A i \in RunsOf(log', mark', k) :
    \E j \in (i + 1)..Len(log') : log'[j].kind = "run" /\ log'[j].obs[k] # NoRead

TriggeredBy(o) ==
  IF o \in DOMAIN dirty_flags THEN dirty_flags'[o] \/ RunsOf(log', mark', o) # {}
  ELSE disposed[o] \/ RunsOf(log', mark', o) # {}

C32_Step ==
  op'.type = "trigger" =>
    \E k \in {op'.what} :
      IF dirty_flags[k]
      THEN /\ Silent /\ C32_Frame
           /\ dirty_flags' = dirty_flags /\ pending' = pending
           /\ cached_values' = cached_values
      ELSE IF batch_depth > 0
      THEN /\ Silent /\ C32_Frame
           /\ dirty_flags' = [dirty_flags EXCEPT ![k] = TRUE]
           /\ pending' = pending \cup observers[k]
           /\ cached_values' = cached_values
      ELSE /\ \A o \in observers[k] : TriggeredBy(o)
           /\ ReadBack(k)
           /\ RunsOf(log', mark', k) = {} =>
                 dirty_flags'[k] /\ cached_values'[k] = cached_values[k]
           /\ pending' = pending

\* C32: the trigger of a lazy derivation (I5). Triggering a clean Computed sets
\* its dirty flag and triggers each of its current observers, run at once
\* outside a batch and added to the pending set inside one, without invoking
\* the function of the Computed; triggering a Computed that is already dirty
\* changes nothing and triggers no observer.
C32_Trigger == [][C32_Step]_vars

\* A clean Computed was triggered outside a batch and an observer of it ran.
C32_Witness ==
  /\ op.type = "trigger" /\ ~op.was /\ batch_depth = 0
  /\ \E i \in (mark + 1)..Len(log) : log[i].kind = "run" /\ log[i].d \in Reactions

\* ------------------------------------------------------------------ C33
\* A scope opened by the program adds one to the depth and its exit takes one
\* off; an @action call, a `with transaction()` block and every other
\* operation leave the depth as they found it, whatever they raised.
C33_Step ==
  batch_depth' = CASE op'.type = "begin" -> batch_depth + 1
                   [] op'.type = "end" -> batch_depth - 1
                   [] OTHER -> batch_depth

\* C33: balanced batch depth. For every @action call and every `with
\* transaction()` block the depth after leaving it, by normal return or by an
\* exception raised in the work or in the flush, equals the depth before
\* entering it; the depth is never negative and equals the number of scopes
\* that are open.
C33_Balanced == (batch_depth = 0) /\ [](batch_depth >= 0) /\ [][C33_Step]_vars

\* An @action call inside an open scope was left by the failure of its work,
\* and one at the top level by a failure of its flush.
C33_Witness ==
  /\ op.type \in {"action", "transaction"} /\ raised # None
  /\ \/ op.was /\ batch_depth = 1
     \/ ~op.was /\ batch_depth = 0

\* ------------------------------------------------------------------ C34
\* The derivations that the step registered on the nodes are those whose
\* latest evaluation read the node: a read made inside a nested evaluation is
\* registered on the nested derivation, a read made after it on the outer one.
C34_Step ==
  \A d \in DOMAIN dependencies' : \A n \in DOMAIN observers' :
    RunsOf(log', mark', d) # {} =>
      (d \in observers'[n] <=> n \in ReadsOf(log', Max(RunsOf(log', mark', d))))

\* C34: stack discipline of the evaluation context. After any evaluation of a
\* Computed, Reaction or data reaction has ended, normally or by an exception,
\* the current derivation is the one that was current before it began: reads
\* inside a nested evaluation are registered on the nested derivation only,
\* reads after it on the outer one, and outside every evaluation the current
\* derivation is none.
C34_Stack == [](current = None) /\ [][C34_Step]_vars

\* A write triggered user, whose evaluation evaluated risky, and the nested
\* evaluation ended by raising through both.
C34_Witness ==
  /\ op.type = "set" /\ current = None /\ raised # None
  /\ \E i \in (mark + 1)..Len(log) : \E j \in (i + 1)..Len(log) :
       /\ log[i].kind = "run" /\ log[i].d = "risky"
       /\ log[j].kind = "run" /\ log[j].d = "user"
       /\ log[j].obs["q"] = NoRead /\ observers["risky"] = {"user"}

\* ------------------------------------------------------------------ C35
\* The nodes that d depends on, directly or through Computeds.
RECURSIVE Upstream(_, _)
Upstream(deps, d) ==
  deps[d] \cup UNION {Upstream(deps, k) : k \in deps[d] \cap DOMAIN deps}

\* The one derivation of the base program that writes a cell is rpar (its
\* effect writes out), and out is not upstream of it.
NoFeedback == "out" \notin Upstream(dependencies, "rpar")

\* The call returned: the flush loop has emptied the pending set, and no
\* derivation ran more often than there are nodes that can trigger it.
C35_Step ==
  (op'.type \in {"set", "end"} /\ NoFeedback) =>
    /\ batch_depth' = 0 => pending' = {}
    /\ \A d \in Derivations : Cardinality(RunsOf(log', mark', d)) <= Cardinality(Nodes)

\* C35: termination of propagation. In a finite graph in which no derivation
\* function writes a cell that it depends on, directly or transitively, every
\* Observable.set() and every outermost end_batch() returns after finitely
\* many derivation runs, the flush loop ending with an empty pending set.
C35_Termination == []NoFeedback /\ [][C35_Step]_vars

\* An outermost end_batch() returned after a flush in which a derivation
\* wrote a cell and a reaction ran more than once.
C35_Witness ==
  /\ op.type = "end" /\ batch_depth = 0 /\ pending = {}
  /\ EffectsOf(log, mark, "rpar") # {}
  /\ \E d \in Reactions : Cardinality(RunsOf(log, mark, d)) > 1

\* ------------------------------------------------------------------ C36
\* The evaluation logged as e ended by an exception: fragile raised after it
\* read 1 in p, or user was left at risky.get() and never read q.
Failed(e) ==
  /\ e.kind = "run"
  /\ IF e.d = "user" THEN e.obs["q"] = NoRead ELSE e.obs["p"] = 1

C36_Step ==
  (op'.type = "set" /\ batch_depth = 0) =>
    /\ (\E i \in 1..Len(log') : Failed(log'[i])) <=> raised' = "ValueError"
    /\ raised' # None => op'.was /\ values'[op'.what] # values[op'.what]
    /\ \A i \in 1..Len(log') : \A j \in (i + 1)..Len(log') :
         Failed(log'[i]) => Failed(log'[j])

\* C36: failure of an observer during a write outside a batch. When
\* cell.set(v) changes the value outside a batch and the function of one of
\* the observers raises, the exception reaches the caller of set(), the cell
\* keeps the value v, and the observers of the snapshot that were not yet
\* notified are not run for this write: nothing is evaluated after the
\* failure but the evaluations that enclose it.
C36_Abort == [][C36_Step]_vars

\* p.set(1) raised out of user, triggered through risky, and strict, the other
\* observer of p, was not run.
C36_Witness ==
  /\ op.type = "set" /\ op.what = "p" /\ batch_depth = 0 /\ raised = "ValueError"
  /\ values["p"] = 1
  /\ RunsOf(log, 0, "user") # {}
  /\ RunsOf(log, 0, "strict") = {} /\ "strict" \in observers["p"]

\* ------------------------------------------------------------------ C37
\* C37: the reads of the effect function of reaction(data_fn, effect_fn)
\* create no dependency edge. After any trigger the dependencies of the data
\* reaction are exactly the nodes that data_fn read (gate: t), and a cell that
\* is read only inside effect_fn (e) has no derivation among its observers and
\* is in no dependencies set, whichever call stack the trigger arrived on: a
\* top-level write, a flush, or a write made inside another derivation's
\* evaluation.
C37_EffectUntracked ==
  /\ dependencies["gate"] = {"t"}
  /\ observers["e"] = {}
  /\ \A d \in DOMAIN dependencies : "e" \notin dependencies[d]

\* ------------------------------------------------------------------ C38
\* The deliveries owed by emit(v) on s: one to each callback of the list of
\* subscribers as it is when emit() starts, in the order of the list.
Owed(s, v) == [i \in 1..Len(subscribers[s]) |-> <<s, subscribers[s][i].cb, v>>]

\* x was subscribed to s when emit() started.
Snapshot(s, x) == \E i \in 1..Len(subscribers[s]) : subscribers[s][i].cb = x[2]

C38_Step ==
  (op'.type = "emit" /\ ~op'.was) =>
    \E s \in {op'.what[1]} : \E v \in {op'.what[2]} :
      SelectSeq(delivered', LAMBDA x : x[1] = s /\ Snapshot(s, x)) = Owed(s, v)

\* C38: delivery of one EventStream.emit(). Every callback that is subscribed
\* when emit() starts is invoked exactly once with the value, in subscription
\* order, also when a callback unsubscribes itself or another subscriber, or
\* adds a subscriber, during the delivery.
C38_Delivery == [][C38_Step]_vars

\* ------------------------------------------------------------------ C39
\* The latest evaluation of r in the step, if it failed, left r live with
\* exactly the edges of the reads it made before it failed, on both sides.
C39_Edges(r) ==
  LET runs == RunsOf(log', mark', r)
  IN (runs # {} /\ Failed(log'[Max(runs)])) =>
       /\ ~disposed'[r]
       /\ dependencies'[r] = ReadsOf(log', Max(runs))
       /\ \A n \in DOMAIN observers' : r \in observers'[n] <=> n \in dependencies'[r]

\* A write outside a batch runs r only if the cell is upstream of r.
C39_Retrigger(r) ==
  (op'.type = "set" /\ batch_depth = 0 /\ RunsOf(log', mark', r) # {}) =>
    op'.what \in Upstream(dependencies, r)

C39_Step == \A r \in DOMAIN disposed' : C39_Edges(r) /\ C39_Retrigger(r)

C40_Failure(k) ==
  LET runs == RunsOf(log', mark', k)
  IN (runs # {} /\ Failed(log'[Max(runs)])) =>
       /\ raised' = "ValueError"
       /\ dirty_flags'[k]
       /\ cached_values'[k] = cached_values[k]

\* get() called by the program.
C40_Get ==
  op'.type = "get" =>
    \E k \in {op'.what} :
      IF ~dirty_flags[k]
      THEN RunsOf(log', mark', k) = {} /\ raised' = None
      ELSE /\ Cardinality(RunsOf(log', mark', k)) = 1
           /\ IF values["p"] # 0
              THEN /\ raised' = "ValueError"
                   /\ dirty_flags'[k]
                   /\ cached_values'[k] = cached_values[k]
              ELSE /\ raised' = None
                   /\ ~dirty_flags'[k]
                   /\ cached_values'[k] = values["w"]

C40_Step == C40_Get /\ \A k \in DOMAIN dirty_flags : C40_Failure(k)

\* C40: failure inside a Computed's function during get(). The exception
\* reaches the caller of get() unchanged, the Computed stays dirty and its
\* cached value is not replaced, so that the next get() invokes the function
\* again (every get() of a dirty Computed invokes it, once).
C40_FailedGet == [][C40_Step]_vars

\* get() of risky raised while risky held the value of an earlier evaluation.
C40_Witness ==
  /\ op.type = "get" /\ op.was /\ raised = "ValueError"
  /\ dirty_flags["risky"] /\ cached_values["risky"] # UNSET
  /\ RunsOf(log, mark, "risky") # {}
====
